---- MODULE Spec2Model ----
(***************************************************************************)
(* EgressLens: sandboxed execution with strace, trace-to-event parsing and *)
(* the pipeline coordinators (watch_command, run_app_command).             *)
(*                                                                         *)
(* Text is modelled as sequences of one-character strings.  A trace line   *)
(* is a record of the tokens that strace writes into the fixed line frame  *)
(*   <pid> <ts> <syscall>(3, {sa_family=<fam>, <port field>=htons(<port>), *)
(*        <addr field>("<ip>")}, 16) = <ret>[ <errno>]                     *)
(* and the regular expression of parse_strace_line is evaluated group by   *)
(* group on those tokens.                                                  *)
(***************************************************************************)
EXTENDS Integers, Sequences, FiniteSets, TLC

\* ------------------------------------------------------------------ bounds
MaxLines == 2
MaxStale == 1
MaxEvents == 3

\* ------------------------------------------------------------ characters
Digit == {"0", "1", "2", "3", "4", "5", "6", "7", "8", "9"}

Letter ==
  {"A", "B", "C", "D", "E", "F", "G", "H", "I", "J", "K", "L", "M", "N", "O",
   "P", "Q", "R", "S", "T", "U", "V", "W", "X", "Y", "Z", "a", "b", "c", "d",
   "e", "f", "g", "h", "i", "j", "k", "l", "m", "n", "o", "p", "q", "r", "s",
   "t", "u", "v", "w", "x", "y", "z"}

\* \w of the regular expression
WordChar == Digit \cup Letter \cup {"_"}

\* [\d.] of the regular expression
TsChar == Digit \cup {"."}

DigitVal(c) ==
  CASE c = "0" -> 0 [] c = "1" -> 1 [] c = "2" -> 2 [] c = "3" -> 3
    [] c = "4" -> 4 [] c = "5" -> 5 [] c = "6" -> 6 [] c = "7" -> 7
    [] c = "8" -> 8 [] c = "9" -> 9

\* Python's None where a string is expected (no errno token)
None == <<"None">>

AllIn(tok, S) == \A i \in 1..Len(tok) : tok[i] \in S

\* the longest prefix of tok whose characters are all in S (greedy S*)
RECURSIVE PrefixIn(_, _)
PrefixIn(tok, S) ==
  IF tok = <<>> \/ Head(tok) \notin S THEN <<>>
  ELSE <<Head(tok)>> \o PrefixIn(Tail(tok), S)

\* the longest suffix of tok whose characters are all in S
RECURSIVE SuffixIn(_, _)
SuffixIn(tok, S) ==
  IF tok = <<>> \/ tok[Len(tok)] \notin S THEN <<>>
  ELSE SuffixIn(SubSeq(tok, 1, Len(tok) - 1), S) \o <<tok[Len(tok)]>>

\* int() of a non-empty digit string
RECURSIVE DecValue(_)
DecValue(tok) ==
  IF tok = <<>> THEN 0
  ELSE 10 * DecValue(SubSeq(tok, 1, Len(tok) - 1)) + DigitVal(tok[Len(tok)])

\* int() of a token matched by -?\d+
PyInt(tok) ==
  IF tok # <<>> /\ Head(tok) = "-" THEN 0 - DecValue(Tail(tok))
  ELSE DecValue(tok)

\* ------------------------------------------------------------- float()
DotCount(tok) == Cardinality({i \in 1..Len(tok) : tok[i] = "."})

\* float() accepts a token of [\d.]+ only with at most one point and a digit
FloatOk(tok) ==
  /\ AllIn(tok, TsChar)
  /\ DotCount(tok) <= 1
  /\ \E i \in 1..Len(tok) : tok[i] \in Digit

RECURSIVE StripZeros(_)
StripZeros(tok) ==
  IF tok # <<>> /\ tok[Len(tok)] = "0"
  THEN StripZeros(SubSeq(tok, 1, Len(tok) - 1))
  ELSE tok

\* the value of float(tok): integer part and significant fraction digits
PyFloat(tok) ==
  LET ip == PrefixIn(tok, Digit)
      fr == IF Len(ip) < Len(tok) THEN SubSeq(tok, Len(ip) + 2, Len(tok))
            ELSE <<>>
  IN  [int |-> DecValue(ip), frac |-> StripZeros(fr)]

\* ---------------------------------------------------------- trace lines
\* "connect(" in line
HasConnect(line) == line.kind = "record" /\ line.syscall = "connect"

\* "AF_INET" in line: the family marker AF_INET or AF_INET6, or the
\* inet_pton(AF_INET6, ...) text of the sin6 address format
HasAfInet(line) ==
  line.kind = "record" /\ (line.fam \in {"AF_INET", "AF_INET6"} \/ line.fmt = "sin6")

\* group 1: (\d+)\s+  - the digits that end the pid token
PidGroup(line) == SuffixIn(line.pid, Digit)

\* group 5: (-?\d+)  - greedy, at the start of the return token
RetGroup(line) ==
  IF line.ret # <<>> /\ Head(line.ret) = "-"
  THEN LET d == PrefixIn(Tail(line.ret), Digit)
       IN  IF d = <<>> THEN <<>> ELSE <<"-">> \o d
  ELSE PrefixIn(line.ret, Digit)

\* group 6: (?:\s+(\w+))?  - needs whitespace right after group 5
ErrnoGroup(line) ==
  IF RetGroup(line) = line.ret /\ PrefixIn(line.errno, WordChar) # <<>>
  THEN PrefixIn(line.errno, WordChar)
  ELSE None

\* re.search(pattern, line) finds a match
PatternMatches(line) ==
  /\ line.kind = "record"
  /\ ~line.cut
  /\ PidGroup(line) # <<>>
  /\ line.ts # <<>> /\ AllIn(line.ts, TsChar)
  /\ line.syscall = "connect"
  /\ line.fam \in {"AF_INET", "AF_INET6"}
  /\ line.fmt = "sin"
  /\ line.port # <<>> /\ AllIn(line.port, Digit)
  /\ line.ip # <<>> /\ "\"" \notin {line.ip[i] : i \in 1..Len(line.ip)}
  /\ RetGroup(line) # <<>>

\* the result of parse_strace_line: an event, None, or a raised exception
Raised(exc) == [raised |-> exc]

\* parse_strace_line returning None
NoEvent == [none |-> TRUE]

IsEvent(r) == "dst_ip" \in DOMAIN r

IsRaise(r) == "raised" \in DOMAIN r

\* mutants of ResultOfCode: the comparison with 0 slackened
ResultOfCode_NonNegative(code) == IF code >= 0 THEN "ok" ELSE "error"

ResultOfCode_MinusOneOk(code) == IF code \in {0, 0 - 1} THEN "ok" ELSE "error"

\* "ok" if result_code == 0 else "error"
ResultOfCode(code) == IF code = 0 THEN "ok" ELSE "error"

parse_strace_line(line) ==
  IF ~HasConnect(line) \/ ~HasAfInet(line) THEN NoEvent
  ELSE IF ~PatternMatches(line) THEN NoEvent
  ELSE IF ~FloatOk(line.ts) THEN Raised("ValueError")
  ELSE [ts       |-> PyFloat(line.ts),
        pid      |-> DecValue(PidGroup(line)),
        event    |-> "connect",
        family   |-> "inet",
        proto    |-> "tcp",
        dst_ip   |-> line.ip,
        dst_port |-> DecValue(line.port),
        result   |-> ResultOfCode(PyInt(RetGroup(line))),
        errno    |-> ErrnoGroup(line)]

\* ------------------------------------------------- the lines of a trace
PidToks == {<<"1", "2">>, <<"0", "7">>}

TsToks == {<<"1", ".", "5">>, <<"1", ".", "2", ".", "3">>, <<"2", ".">>}

PortToks == {<<"4", "4", "3">>, <<"9", "9", "9", "9", "9">>, <<"0">>, <<"4", "x">>}

IpToks == {<<"1", ".", "2", ".", "3", ".", "4">>, <<"e", "v", "i", "l">>, <<>>}

RetToks == {<<"0">>, <<"-", "1">>, <<"-">>, <<"7">>}

ECONNREFUSED == <<"E", "C", "O", "N", "N", "R", "E", "F", "U", "S", "E", "D">>

EINPROGRESS == <<"E", "I", "N", "P", "R", "O", "G", "R", "E", "S", "S">>

ErrnoToks == {<<>>, ECONNREFUSED, EINPROGRESS}

\* an empty line of the trace file
BlankLine ==
  [kind |-> "blank", syscall |-> "", fam |-> "", fmt |-> "", cut |-> FALSE,
   pid |-> <<>>, ts |-> <<>>, port |-> <<>>, ip |-> <<>>, ret |-> <<>>,
   errno |-> <<>>]

\* every line the tokens above can form; cut: the line ends inside the
\* socket address (a trace file cut off mid-record)
RecordLines ==
  [kind : {"record"}, syscall : {"connect", "openat"},
   fam : {"AF_INET", "AF_INET6", "AF_UNIX"}, fmt : {"sin", "sin6"},
   cut : BOOLEAN, pid : PidToks, ts : TsToks, port : PortToks, ip : IpToks,
   ret : RetToks, errno : ErrnoToks]

Lines == RecordLines \cup {BlankLine}

\* lines a trace file is made of in the pipeline runs
GoodLine ==
  [kind |-> "record", syscall |-> "connect", fam |-> "AF_INET", fmt |-> "sin",
   cut |-> FALSE, pid |-> <<"1", "2">>, ts |-> <<"1", ".", "5">>,
   port |-> <<"4", "4", "3">>, ip |-> <<"1", ".", "2", ".", "3", ".", "4">>,
   ret |-> <<"0">>, errno |-> <<>>]

RefusedLine ==
  [GoodLine EXCEPT !.pid = <<"0", "7">>, !.port = <<"0">>,
                   !.ret = <<"-", "1">>, !.errno = ECONNREFUSED]

NoiseLine == [GoodLine EXCEPT !.syscall = "openat", !.fam = "AF_UNIX"]

BadTsLine == [GoodLine EXCEPT !.ts = <<"1", ".", "2", ".", "3">>]

FileLines == {GoodLine, RefusedLine, NoiseLine, BadTsLine}

SeqsUpTo(S, n) == UNION {[1..k -> S] : k \in 0..n}

\* what strace can leave in egress.strace
TraceContents == SeqsUpTo(FileLines, MaxLines)

\* what an earlier run can have left in the output directory
StaleContents == SeqsUpTo(FileLines, MaxStale)

File(content) == [exists |-> TRUE, lines |-> content]

Absent == [exists |-> FALSE, lines |-> <<>>]

\* exit statuses of the traced command
ExitCodes == {0, 2}

\* error_message is None
NoError == "None"

\* ------------------------------------------------------- app directories
Candidates == <<"__main__.py", "main.py", "app.py">>

\* Path.exists() and Path.is_file() of an entry of the app directory
PathExists(app, name) == name \in app.files \cup app.dirs

PathIsFile(app, name) == name \in app.files

\* mutant of discover_entry_point: the last candidate that is a file wins
discover_entry_point_LastWins(app) ==
  LET found == {i \in 1..Len(Candidates) :
                  PathExists(app, Candidates[i]) /\ PathIsFile(app, Candidates[i])}
  IN  IF found = {} THEN "AppValidationError"
      ELSE Candidates[CHOOSE i \in found : \A j \in found : i >= j]

\* the loop over candidates: the first that exists and is a file is returned
discover_entry_point(app) ==
  LET found == {i \in 1..Len(Candidates) :
                  PathExists(app, Candidates[i]) /\ PathIsFile(app, Candidates[i])}
  IN  IF found = {} THEN "AppValidationError"
      ELSE Candidates[CHOOSE i \in found : \A j \in found : i <= j]

\* raise AppValidationError(message)
AppValidationError(message) ==
  [raised |-> "AppValidationError", message |-> message]

\* the dictionary validate_app_directory returns
AppMeta(app) == [entry_point |-> discover_entry_point(app)]

\* mutant of validate_app_directory: the entry point is not parsed
validate_app_directory_NoSyntaxCheck(app) ==
  IF ~app.exists THEN AppValidationError("Directory does not exist")
  ELSE IF ~app.is_dir THEN AppValidationError("Not a directory")
  ELSE IF discover_entry_point(app) = "AppValidationError"
       THEN AppValidationError("No entry point found")
  ELSE AppMeta(app)

validate_app_directory(app) ==
  IF ~app.exists THEN AppValidationError("Directory does not exist")
  ELSE IF ~app.is_dir THEN AppValidationError("Not a directory")
  ELSE IF discover_entry_point(app) = "AppValidationError"
       THEN AppValidationError("No entry point found")
  ELSE IF ~app.syntax_ok THEN AppValidationError("Invalid Python syntax")
  ELSE AppMeta(app)

GoodApp == [exists |-> TRUE, is_dir |-> TRUE, files |-> {"main.py", "app.py"},
            dirs |-> {}, syntax_ok |-> TRUE]

\* the names an app directory can hold, each as a file or as a directory
EntryNames == {"__main__.py", "main.py", "app.py", "utils.py"}

\* every app directory over those names
AppDirs ==
  UNION {{[GoodApp EXCEPT !.files = fs, !.dirs = ds] :
            ds \in SUBSET (EntryNames \ fs)} : fs \in SUBSET EntryNames}

Apps ==
  {GoodApp,
   [GoodApp EXCEPT !.exists = FALSE, !.is_dir = FALSE, !.files = {}],
   [GoodApp EXCEPT !.is_dir = FALSE, !.files = {}],
   [GoodApp EXCEPT !.files = {}],
   [GoodApp EXCEPT !.files = {}, !.dirs = {"main.py"}],
   [GoodApp EXCEPT !.syntax_ok = FALSE]}

\* ------------------------------------------------- the JSONL artifact
\* str() of a non-negative int
RECURSIVE PyStr(_)
PyStr(n) ==
  LET d == <<"0", "1", "2", "3", "4", "5", "6", "7", "8", "9">>[(n % 10) + 1]
  IN  IF n < 10 THEN <<d>> ELSE PyStr(n \div 10) \o <<d>>

\* float.__repr__: the shortest text that reads back as the same value
FloatRepr(x) ==
  PyStr(x.int) \o <<".">> \o (IF x.frac = <<>> THEN <<"0">> ELSE x.frac)

\* characters json.dumps writes with a backslash in front
JsonEscaped == {"\"", "\\"}

\* mutant of Escape: the characters are written as they are
Escape_Raw(s) == s

RECURSIVE Escape(_)
Escape(s) ==
  IF s = <<>> THEN <<>>
  ELSE (IF Head(s) \in JsonEscaped THEN <<"\\", Head(s)>> ELSE <<Head(s)>>)
       \o Escape(Tail(s))

RECURSIVE Unescape(_)
Unescape(s) ==
  IF s = <<>> THEN <<>>
  ELSE IF Head(s) = "\\" /\ Len(s) > 1
       THEN <<s[2]>> \o Unescape(Tail(Tail(s)))
       ELSE <<Head(s)>> \o Unescape(Tail(s))

Quote == <<"\"">>

JsonNull == <<"n", "u", "l", "l">>

\* json.dumps of a str held as characters, of a str held whole, of an
\* Optional[str]
DumpsText(s) == Quote \o Escape(s) \o Quote

DumpsWord(w) == <<"\"", w, "\"">>

DumpsOptional(s) == IF s = None THEN JsonNull ELSE DumpsText(s)

\* json.dumps(event): the members of one line of egress.jsonl
json_dumps(event) ==
  [kind     |-> "object",
   ts       |-> FloatRepr(event.ts),
   pid      |-> PyStr(event.pid),
   event    |-> DumpsWord(event.event),
   family   |-> DumpsWord(event.family),
   proto    |-> DumpsWord(event.proto),
   dst_ip   |-> DumpsText(event.dst_ip),
   dst_port |-> PyStr(event.dst_port),
   result   |-> DumpsWord(event.result),
   errno    |-> DumpsOptional(event.errno)]

\* a line that is not a JSON document, and a line of white space only
GarbageLine ==
  [kind |-> "garbage", ts |-> <<>>, pid |-> <<>>, event |-> <<>>,
   family |-> <<>>, proto |-> <<>>, dst_ip |-> <<>>, dst_port |-> <<>>,
   result |-> <<>>, errno |-> <<>>]

BlankJsonLine == [GarbageLine EXCEPT !.kind = "blank"]

IsQuoted(tok) == Len(tok) >= 2 /\ Head(tok) = "\"" /\ tok[Len(tok)] = "\""

Unquoted(tok) == SubSeq(tok, 2, Len(tok) - 1)

\* json.loads of one member: a value tagged with its JSON type
LoadsValue(tok) ==
  IF tok = JsonNull THEN [t |-> "null", v |-> None]
  ELSE IF IsQuoted(tok) THEN [t |-> "str", v |-> Unescape(Unquoted(tok))]
  ELSE IF "." \in {tok[i] : i \in 1..Len(tok)}
       THEN [t |-> "float", v |-> PyFloat(tok)]
       ELSE [t |-> "int", v |-> PyInt(tok)]

\* event_data has no such key
NoMember == [t |-> "absent", v |-> None]

\* json.loads(line): a dict of tagged values, or JSONDecodeError; the
\* member resolved_domain is there when the line has it
json_loads(l) ==
  IF l.kind # "object" THEN Raised("JSONDecodeError")
  ELSE [resolved_domain |->
          IF "resolved_domain" \in DOMAIN l THEN LoadsValue(l.resolved_domain)
          ELSE NoMember,
        ts       |-> LoadsValue(l.ts),
        pid      |-> LoadsValue(l.pid),
        event    |-> LoadsValue(l.event),
        family   |-> LoadsValue(l.family),
        proto    |-> LoadsValue(l.proto),
        dst_ip   |-> LoadsValue(l.dst_ip),
        dst_port |-> LoadsValue(l.dst_port),
        result   |-> LoadsValue(l.result),
        errno    |-> LoadsValue(l.errno)]

\* ------------------------------------------------------------- metadata
\* bool(x) of a loaded JSON value: None, "", 0 and 0.0 are false
Truthy(x) ==
  CASE x.t = "null" -> FALSE
    [] x.t = "str" -> x.v # <<>>
    [] x.t = "int" -> x.v # 0
    [] x.t = "float" -> x.v # [int |-> 0, frac |-> <<>>]

\* str() of a loaded JSON value inside an f-string
Formatted(x) ==
  CASE x.t = "null" -> None
    [] x.t = "str" -> x.v
    [] x.t = "int" -> PyStr(x.v)
    [] x.t = "float" -> FloatRepr(x.v)

\* src/cli/egresslens/metadata.py: count_events_from_jsonl; a blank line
\* and a line json.loads does not take are passed over
count_events_from_jsonl(f) ==
  IF ~f.exists THEN <<0, 0, 0>>
  ELSE LET loaded == {i \in 1..Len(f.lines) :
                        f.lines[i].kind # "blank" /\ ~IsRaise(json_loads(f.lines[i]))}
           dst_ip(i) == json_loads(f.lines[i]).dst_ip
           dst_port(i) == json_loads(f.lines[i]).dst_port
           unique_ips == {dst_ip(i).v : i \in {j \in loaded : Truthy(dst_ip(j))}}
           unique_ip_ports ==
             {Formatted(dst_ip(i)) \o <<":">> \o Formatted(dst_port(i)) :
                i \in {j \in loaded : Truthy(dst_ip(j)) /\ Truthy(dst_port(j))}}
       IN  <<Cardinality(loaded), Cardinality(unique_ips),
             Cardinality(unique_ip_ports)>>

NoMetadata == [exists |-> FALSE, exit_code |-> 0, total_events |-> 0,
               unique_dst_ips |-> 0, unique_dst_ip_ports |-> 0]

generate_metadata(code, counts) ==
  [exists |-> TRUE, exit_code |-> code, total_events |-> counts[1],
   unique_dst_ips |-> counts[2], unique_dst_ip_ports |-> counts[3]]

\* pydantic's validation of a float, an int and a str field
AsFloat(x) == IF x.t = "int" THEN [int |-> x.v, frac |-> <<>>] ELSE x.v

FloatFieldOk(x) == x.t \in {"float", "int"}

IntFieldOk(x) == x.t = "int" \/ (x.t = "float" /\ x.v.frac = <<>>)

AsInt(x) == IF x.t = "float" THEN x.v.int ELSE x.v

\* a str held whole is the one element between the quotes
AsWord(x) == IF Len(x.v) = 1 THEN x.v[1] ELSE x.v

\* EventSchema(**event_data) for the dict of a JSONL line
EventSchema(d) ==
  IF \/ ~FloatFieldOk(d.ts) \/ ~IntFieldOk(d.pid) \/ ~IntFieldOk(d.dst_port)
     \/ \E f \in {"event", "family", "proto", "dst_ip", "result"} : d[f].t # "str"
     \/ d.errno.t \notin {"str", "null"}
     \/ d.resolved_domain.t \notin {"str", "null", "absent"}
  THEN Raised("ValidationError")
  ELSE [ts       |-> AsFloat(d.ts),
        pid      |-> AsInt(d.pid),
        event    |-> AsWord(d.event),
        family   |-> AsWord(d.family),
        proto    |-> AsWord(d.proto),
        dst_ip   |-> d.dst_ip.v,
        dst_port |-> AsInt(d.dst_port),
        result   |-> AsWord(d.result),
        errno    |-> d.errno.v,
        resolved_domain |-> d.resolved_domain.v,
        cmd      |-> None,
        container_image |-> None,
        run_id   |-> None]

\* ------------------------------------------------ backend: aggregation
\* Constants for flags calculation
HIGH_DEST_THRESHOLD == 50

\* 0.10, as numerator and denominator
FAILURE_THRESHOLD == [num |-> 10, den |-> 100]

USUAL_PORTS == {80, 443, 53, 22}

\* dest_counter.most_common(50)
TOP_DESTINATIONS == 50

\* events[:100]
TOP_EVENTS == 100

\* a float quotient n / d, kept as the two integers; 0.0 is 0 / 1
Rate(n, d) == [num |-> n, den |-> d]

\* mutant of RateGreater: the comparison turned round
RateGreater_Below(a, b) == a.num * b.den < b.num * a.den

\* a > b for two quotients with positive denominators
RateGreater(a, b) == a.num * b.den > b.num * a.den

Range(s) == {s[i] : i \in 1..Len(s)}

Take(s, n) == SubSeq(s, 1, IF Len(s) < n THEN Len(s) ELSE n)

\* (e.dst_ip, e.dst_port)
Dest(e) == <<e.dst_ip, e.dst_port>>

\* [key(e) for e in events], one half of the list after the other
RECURSIVE Each(_, _)
Each(key(_), events) ==
  IF events = <<>> THEN <<>>
  ELSE IF Len(events) = 1 THEN <<key(events[1])>>
  ELSE LET h == Len(events) \div 2
       IN  Each(key, SubSeq(events, 1, h))
           \o Each(key, SubSeq(events, h + 1, Len(events)))

Ip(e) == e.dst_ip

Port(e) == e.dst_port

\* the members of a set of positions, in increasing order
Ascending(P) ==
  Each(LAMBDA r : CHOOSE i \in P : Cardinality({j \in P : j <= i}) = r,
       [r \in 1..Cardinality(P) |-> r])

\* collections.Counter(keys): the keys in first-seen order with their counts
Counter(keys) ==
  LET first == {i \in 1..Len(keys) : \A j \in 1..(i - 1) : keys[j] # keys[i]}
  IN  Each(LAMBDA i : [key |-> keys[i],
                       count |-> Cardinality({j \in 1..Len(keys) :
                                                keys[j] = keys[i]})],
           Ascending(first))

\* mutant of Rank: of two entries of equal count the later one goes first
Rank_LaterFirst(c, i) ==
  1 + Cardinality({j \in 1..Len(c) : c[j].count > c[i].count})
    + Cardinality({j \in (i + 1)..Len(c) : c[j].count = c[i].count})

\* the place of entry i in sorted(c, key=count, reverse=True): the sort is
\* stable, so behind the entries of greater count and behind the entries
\* of equal count that come before it
Rank(c, i) ==
  1 + Cardinality({j \in 1..Len(c) : c[j].count > c[i].count})
    + Cardinality({j \in 1..(i - 1) : c[j].count = c[i].count})

\* Counter.most_common(n)
most_common(c, n) ==
  LET ranks == Each(LAMBDA i : Rank(c, i), [i \in 1..Len(c) |-> i])
      top == IF Len(c) < n THEN Len(c) ELSE n
  IN  Each(LAMBDA r : c[CHOOSE i \in 1..Len(c) : ranks[i] = r],
           [r \in 1..top |-> r])

\* mutant of dest_protocol: the protocol of the first event of the
\* destination
dest_protocol_FirstSeen(events, key) ==
  SelectSeq(events, LAMBDA e : Dest(e) = key)[1].proto

\* dest_protocols[key]: the most common protocol of the destination
dest_protocol(events, key) ==
  LET protocols == Each(LAMBDA e : e.proto,
                        SelectSeq(events, LAMBDA e : Dest(e) = key))
  IN  most_common(Counter(protocols), 1)[1].key

\* next(e.resolved_domain for e in events if ... and e.resolved_domain)
dest_domain(events, key) ==
  LET carried == SelectSeq(events,
                           LAMBDA e : /\ Dest(e) = key
                                      /\ e.resolved_domain # None
                                      /\ e.resolved_domain # <<>>)
  IN  IF carried = <<>> THEN None ELSE Head(carried).resolved_domain

\* mutant of CountFailures: only refused connections count
CountFailures_RefusedOnly(events) ==
  Cardinality({i \in 1..Len(events) : events[i].errno = ECONNREFUSED})

\* sum(1 for e in events if e.result != "ok")
CountFailures(events) ==
  Cardinality({i \in 1..Len(events) : events[i].result # "ok"})

\* mutant of CountDistinct: consecutive repeats only are merged
CountDistinct_Runs(values) ==
  Cardinality({i \in 1..Len(values) : i = 1 \/ values[i] # values[i - 1]})

\* len(set(...))
CountDistinct(values) == Cardinality(Range(values))

compute_aggregates(events) ==
  IF events = <<>>
  THEN [total_events |-> 0, unique_ips |-> 0, unique_ports |-> 0,
        unique_destinations |-> 0, failures |-> 0, failure_rate |-> Rate(0, 1),
        top_destinations |-> <<>>]
  ELSE LET total_events == Len(events)
           failures == CountFailures(events)
           dest_counter == Counter(Each(Dest, events))
           top == most_common(dest_counter, TOP_DESTINATIONS)
       IN  [total_events |-> total_events,
            unique_ips |-> CountDistinct(Each(Ip, events)),
            unique_ports |-> CountDistinct(Each(Port, events)),
            unique_destinations |-> CountDistinct(Each(Dest, events)),
            failures |-> failures,
            failure_rate |-> Rate(failures, total_events),
            top_destinations |->
              [i \in 1..Len(top) |->
                 [dst_ip |-> top[i].key[1],
                  dst_port |-> top[i].key[2],
                  proto |-> dest_protocol(events, top[i].key),
                  count |-> top[i].count,
                  domain |-> dest_domain(events, top[i].key)]]]

\* sorted(values)
RECURSIVE Sorted(_)
Sorted(S) ==
  IF S = {} THEN <<>>
  ELSE LET m == CHOOSE x \in S : \A y \in S : x <= y
       IN  <<m>> \o Sorted(S \ {m})

\* a flag; detail holds the numbers its description is formatted from
Flag(name, detail) == [name |-> name, detail |-> detail, severity |-> "medium"]

RateDetail(r) == <<r.num, r.den>>

\* mutant of calculate_flags: the first flag that applies is the only one
calculate_flags_FirstOnly(events, summary) ==
  LET unusual_ports == {events[i].dst_port : i \in 1..Len(events)} \ USUAL_PORTS
  IN  IF summary.unique_destinations > HIGH_DEST_THRESHOLD
      THEN <<Flag("High unique destinations", <<summary.unique_destinations>>)>>
      ELSE IF RateGreater(summary.failure_rate, FAILURE_THRESHOLD)
      THEN <<Flag("Elevated failure rate", RateDetail(summary.failure_rate))>>
      ELSE IF unusual_ports # {}
      THEN <<Flag("Unusual ports", Sorted(unusual_ports))>>
      ELSE <<>>

\* the flags in the order they are appended
calculate_flags(events, summary) ==
  LET unusual_ports == {events[i].dst_port : i \in 1..Len(events)} \ USUAL_PORTS
  IN  (IF summary.unique_destinations > HIGH_DEST_THRESHOLD
       THEN <<Flag("High unique destinations", <<summary.unique_destinations>>)>>
       ELSE <<>>)
      \o (IF RateGreater(summary.failure_rate, FAILURE_THRESHOLD)
          THEN <<Flag("Elevated failure rate", RateDetail(summary.failure_rate))>>
          ELSE <<>>)
      \o (IF unusual_ports # {}
          THEN <<Flag("Unusual ports", Sorted(unusual_ports))>>
          ELSE <<>>)

\* ------------------------------------------------ backend: the uploads
\* a trace line of a connect to host number host
HostLine(host, port, failing) ==
  [GoodLine EXCEPT
     !.ip = <<"1", "0", ".", "0", ".", "0", ".">> \o PyStr(host),
     !.port = PyStr(port),
     !.ret = IF failing THEN <<"-", "1">> ELSE <<"0">>,
     !.errno = IF failing THEN ECONNREFUSED ELSE <<>>]

\* the host of connect i when k hosts are contacted in turn and the
\* connects after the first round go to the first hosts, or (late) to the
\* hosts contacted last
HostOf(i, k, late) ==
  IF i <= k THEN i
  ELSE IF late THEN k - ((i - k - 1) % k) ELSE ((i - k - 1) % k) + 1

\* a run of n connects to k hosts of which the first f fail and connect u
\* goes to port 8080 instead of 443
LongTrace(n, k, f, u, late) ==
  [i \in 1..n |->
     HostLine(HostOf(i, k, late), IF i = u THEN 8080 ELSE 443, i <= f)]

\* runs around the destination threshold and the stored-event limit
LongTraces ==
  {LongTrace(n, k, f, u, late) :
     n \in {HIGH_DEST_THRESHOLD, HIGH_DEST_THRESHOLD + 1, TOP_EVENTS + 1},
     k \in HIGH_DEST_THRESHOLD..(HIGH_DEST_THRESHOLD + 2),
     f \in {0, 5, 6},
     u \in {0, 1, TOP_EVENTS + 1},
     late \in BOOLEAN}

\* a connect whose address text holds a backslash and whose timestamp
\* ends with the point
OtherHostLine ==
  [GoodLine EXCEPT !.ip = <<"e", "v", "i", "l", "\\", "n">>, !.ts = <<"2", ".">>]

DnsLine == [RefusedLine EXCEPT !.port = <<"5", "3">>, !.errno = EINPROGRESS]

\* the lines of the short runs
UploadLines == {GoodLine, RefusedLine, OtherHostLine, DnsLine, NoiseLine}

ShortTraces == SeqsUpTo(UploadLines, MaxEvents)

\* --------------------------------------- DockerRunner: container set-up
Image == <<"egresslens/base:latest">>

\* _build_strace_cmd: sh -c "strace ... -o /output/egress.strace -- sh -c
\* '<command, quoted> > /output/cmd_stdout 2> /output/cmd_stderr' && sync"
StraceCmd(command) ==
  <<<<"sh">>, <<"-c">>,
    <<"strace -f -ttt -e trace=network -s 256 -o /output/egress.strace -- sh -c",
      command, "&& sync">>>>

\* run_python_app: ["python", entry_point] + app_args
PythonCmd(entry_point, app_args) == <<"python", entry_point>> \o app_args

\* tmpfs=: mount point and mount options, the options text cut at the commas
Tmpfs ==
  {<<"/tmp", <<"rw", "noexec", "nosuid", "size=100m">>>>,
   <<"/root/.local", <<"rw", "nosuid", "size=100m">>>>,
   <<"/root/.cache", <<"rw", "nosuid", "size=50m">>>>}

Mount(source, bind, mode) == [source |-> source, bind |-> bind, mode |-> mode]

\* no container was created
NoConfig ==
  [created |-> FALSE, read_only |-> FALSE, tmpfs |-> {}, cap_drop |-> {},
   cap_add |-> {}, security_opt |-> {}, mounts |-> {}, working_dir |-> <<>>,
   image |-> <<>>, command |-> <<>>]

\* a dict display with two keys: an equal second key replaces the first
DictOf(k1, v1, k2, v2) ==
  IF k1 = k2 THEN {<<k2, v2>>} ELSE {<<k1, v1>>, <<k2, v2>>}

\* client.containers.run(image, command=, read_only=, tmpfs=, cap_drop=,
\* cap_add=, security_opt=, volumes=, working_dir=)
SdkConfig(work_dir, out_dir, command) ==
  LET volumes == DictOf(work_dir, [bind |-> "/work", mode |-> "ro"],
                        out_dir, [bind |-> "/output", mode |-> "rw"])
  IN  [created |-> TRUE,
       read_only |-> TRUE,
       tmpfs |-> Tmpfs,
       cap_drop |-> {"ALL"},
       cap_add |-> {"SYS_PTRACE"},
       security_opt |-> {"seccomp=unconfined", "no-new-privileges"},
       mounts |-> {Mount(v[1], v[2].bind, v[2].mode) : v \in volumes},
       working_dir |-> <<"/work">>,
       image |-> Image,
       command |-> StraceCmd(command)]

\* the argument list of subprocess.run(["docker", "run", "-d", ...])
SubArgs(work_dir, out_dir, command) ==
  <<<<"-d">>,
    <<"--read-only">>,
    <<"--tmpfs">>, <<"/tmp", <<"rw", "noexec", "nosuid", "size=100m">>>>,
    <<"--tmpfs">>, <<"/root/.local", <<"rw", "nosuid", "size=100m">>>>,
    <<"--tmpfs">>, <<"/root/.cache", <<"rw", "nosuid", "size=50m">>>>,
    <<"--cap-drop">>, <<"ALL">>,
    <<"--cap-add">>, <<"SYS_PTRACE">>,
    <<"--security-opt">>, <<"seccomp=unconfined">>,
    <<"--security-opt">>, <<"no-new-privileges">>,
    <<"--volume">>, <<work_dir, "/work", "ro">>,
    <<"--volume">>, <<out_dir, "/output", "rw">>,
    <<"--workdir">>, <<"/work">>,
    Image>> \o StraceCmd(command)

\* docker run: the options up to the image, then the image and its command
RECURSIVE DockerRun(_, _)
DockerRun(args, c) ==
  IF args = <<>> THEN c
  ELSE LET a == Head(args)
           v == args[2]
           rest == Tail(Tail(args))
       IN  CASE a = <<"-d">> -> DockerRun(Tail(args), c)
             [] a = <<"--read-only">> ->
                  DockerRun(Tail(args), [c EXCEPT !.read_only = TRUE])
             [] a = <<"--tmpfs">> ->
                  DockerRun(rest, [c EXCEPT !.tmpfs = @ \cup {v}])
             [] a = <<"--cap-drop">> ->
                  DockerRun(rest, [c EXCEPT !.cap_drop = @ \cup {v[1]}])
             [] a = <<"--cap-add">> ->
                  DockerRun(rest, [c EXCEPT !.cap_add = @ \cup {v[1]}])
             [] a = <<"--security-opt">> ->
                  DockerRun(rest, [c EXCEPT !.security_opt = @ \cup {v[1]}])
             [] a = <<"--volume">> ->
                  DockerRun(rest, [c EXCEPT !.mounts = @ \cup {Mount(v[1], v[2], v[3])}])
             [] a = <<"--workdir">> ->
                  DockerRun(rest, [c EXCEPT !.working_dir = v])
             [] OTHER -> [c EXCEPT !.image = a, !.command = Tail(args)]

SubConfig(work_dir, out_dir, command) ==
  DockerRun(SubArgs(work_dir, out_dir, command), [NoConfig EXCEPT !.created = TRUE])

\* the directories of an invocation: --out is a directory of its own, or
\* the directory that is mounted as /work
AppDir == "/home/user/app"

OutDir == "/home/user/egresslens-output"

Launches ==
  [work_dir : {AppDir}, out_dir : {OutDir, AppDir},
   app_args : {<<>>, <<"--privileged">>}]

\* --out names a directory of its own and the app gets no arguments
SeparateOut == [work_dir |-> AppDir, out_dir |-> OutDir, app_args |-> <<>>]

\* the command run_python_app hands to run_with_strace
CommandOf(a, l) == PythonCmd(validate_app_directory(a).entry_point, l.app_args)

\* ------------------------------------------------------------------ state
VARIABLES
  line, out,          \* the parser applied to one line
  entry_point,        \* discover_entry_point applied to an app directory
  cmd, app, client,   \* the invocation: subcommand, app directory, SDK client
  launch,             \* the directories and app arguments of the invocation
  config,             \* the configuration the container was created with
  pc,                 \* position in the coordinator / the runner
  stages,             \* coordinator stages entered so far, in order
  strace, jsonl, runjson,   \* egress.strace, egress.jsonl, run.json
  container, status,  \* the container and the traced command's exit status
  traced,             \* this run's tracer wrote egress.strace
  exit_code, error,   \* what run_with_strace returned
  warned,             \* a warning was printed
  stderr,             \* the Error line run_app_command printed
  pos, count,         \* parse_to_jsonl: next line, events written
  reader,             \* parse_strace_file: file as opened, lines read so far
  failure,            \* the step of the launch strategy that failed, if any
  raised,             \* exception that left the coordinator
  ret,                \* the coordinator's return value
  trace,              \* the trace of the run whose events are uploaded
  uploaded,           \* the lines of the uploaded egress.jsonl
  events,             \* upload_report: the events read from the upload
  report,             \* the Report row upload_report added
  db,                 \* the reports table
  shown, exported,    \* responses of get_report and of export.md
  listing,            \* response of get_report_events
  engine,             \* a direct call of calculate_flags and what it gave
  rpc,                \* position in the reports API
  peer                \* another invocation of egresslens at the same time

pvars == <<line, out, entry_point, stderr>>

inputs == <<cmd, app, client, launch>>

cvars == <<inputs, config, pc, stages, strace, jsonl, runjson, container, status,
           traced, exit_code, error, warned, pos, count, reader, failure,
           raised, ret>>

\* the stage the coordinator is in
stage == stages[Len(stages)]

NotOpened == [called |-> FALSE, snapshot |-> <<>>, lines |-> <<>>]

rvars == <<trace, uploaded, events, report, db, shown, exported, listing,
           engine, rpc>>

vars == <<pvars, cvars, rvars, peer>>

Pending == [pending |-> TRUE]

\* the directory --out of another invocation names
OtherOutDir == "/home/user/second-output"

\* no other invocation is running
NoPeer == [out_dir |-> OtherOutDir, pc |-> "off", wrote |-> {}]

NotReturned == 0 - 1

\* the records an earlier run wrote to egress.jsonl from the trace ls
RECURSIVE JsonlLeftBy(_)
JsonlLeftBy(ls) ==
  IF ls = <<>> THEN <<>>
  ELSE LET e == parse_strace_line(Head(ls))
       IN  IF IsRaise(e) THEN <<>>
           ELSE (IF IsEvent(e) THEN <<json_dumps(e)>> ELSE <<>>)
                \o JsonlLeftBy(Tail(ls))

\* the state before a coordinator is called: the output directory is new
\* or holds what an earlier run left in it
CoordInit ==
  /\ cmd \in {"watch", "run_app"}
  /\ app \in IF cmd = "watch" THEN {GoodApp} ELSE Apps
  /\ client \in BOOLEAN
  /\ launch = SeparateOut
  /\ config = NoConfig
  /\ pc = "idle"
  /\ stages = <<"Idle">>
  /\ reader = NotOpened
  /\ failure = "none"
  /\ strace \in {Absent} \cup {File(c) : c \in StaleContents}
  /\ jsonl = IF strace.exists THEN File(JsonlLeftBy(strace.lines)) ELSE Absent
  /\ runjson = NoMetadata
  /\ container = "none"
  /\ status = 0
  /\ traced = FALSE
  /\ exit_code = 0
  /\ error = NoError
  /\ warned = FALSE
  /\ pos = 1
  /\ count = 0
  /\ raised = "none"
  /\ ret = NotReturned

\* ------------------------------------------------- DockerRunner (engine)
\* run_with_strace returns (code, err) to the coordinator
RunnerReturn(code, err) ==
  /\ exit_code' = code
  /\ error' = err
  /\ pc' = "returned_from_runner"

\* Path.touch(): creates an empty file, keeps an existing one
Touch(f) == IF f.exists THEN f ELSE File(<<>>)

\* _ensure_strace_file_exists
EnsureStraceFileExists(f) == IF ~f.exists THEN Touch(f) ELSE f

\* mutant of WriteRecord: the newest record is put first
WriteRecord_Prepend(f, event) == File(<<json_dumps(event)>> \o f.lines)

\* parse_to_jsonl: f.write(json.dumps(event) + "\n")
WriteRecord(f, event) == File(Append(f.lines, json_dumps(event)))

\* _run_with_docker_sdk: client.containers.run(..., detach=True)
SdkRun ==
  /\ pc = "sdk_run"
  /\ \E started \in BOOLEAN :
       IF started
       THEN /\ container' = "running"
            /\ config' = SdkConfig(launch.work_dir, launch.out_dir,
                                   CommandOf(app, launch))
            /\ pc' = "sdk_wait"
            /\ UNCHANGED <<exit_code, error, failure>>
       ELSE /\ RunnerReturn(1, "Docker SDK error")
            /\ failure' = "start"
            /\ UNCHANGED <<container, config>>
  /\ UNCHANGED <<pvars, peer, rvars, inputs, stages, strace, jsonl, runjson, status,
                 traced, warned, pos, count, reader, raised, ret>>

\* the traced command runs to its end inside the container; strace -o
\* (re)writes /output/egress.strace unless the tracer could not start
ContainerExit ==
  /\ container = "running"
  /\ container' = "exited"
  /\ \E st \in ExitCodes : status' = st
  /\ \/ \E c \in TraceContents : strace' = File(c) /\ traced' = TRUE
     \/ UNCHANGED <<strace, traced>>
  /\ UNCHANGED <<pvars, peer, rvars, inputs, config, pc, stages, jsonl, runjson, exit_code, error,
                 warned, pos, count, reader, failure, raised, ret>>

\* container.wait()["StatusCode"], then _ensure_strace_file_exists
SdkWait ==
  /\ pc = "sdk_wait"
  /\ \/ /\ container = "exited"
        /\ exit_code' = status
        /\ strace' = EnsureStraceFileExists(strace)
        /\ pc' = "sdk_remove"
        /\ UNCHANGED <<error, failure>>
     \/ /\ RunnerReturn(1, "Docker SDK error")
        /\ failure' = "wait"
        /\ UNCHANGED strace
  /\ UNCHANGED <<pvars, peer, rvars, inputs, config, stages, jsonl, runjson, container, status,
                 traced, warned, pos, count, reader, raised, ret>>

\* container.remove(), then return exit_code, None
SdkRemove ==
  /\ pc = "sdk_remove"
  /\ \E removed \in BOOLEAN :
       IF removed
       THEN /\ container' = "removed"
            /\ RunnerReturn(exit_code, NoError)
            /\ UNCHANGED failure
       ELSE /\ RunnerReturn(1, "Docker SDK error")
            /\ failure' = "remove"
            /\ UNCHANGED container
  /\ UNCHANGED <<pvars, peer, rvars, inputs, config, stages, strace, jsonl, runjson, status,
                 traced, warned, pos, count, reader, raised, ret>>

\* _run_with_subprocess: subprocess.run(["docker", "run", "-d", ...])
SubRun ==
  /\ pc = "sub_run"
  /\ \E outcome \in {"started", "no_id", "rejected", "oserror"} :
       CASE outcome = "started" ->
              /\ container' = "running"
              /\ config' = SubConfig(launch.work_dir, launch.out_dir,
                                     CommandOf(app, launch))
              /\ pc' = "sub_wait"
              /\ UNCHANGED <<exit_code, error, failure>>
         [] outcome = "no_id" ->
              /\ container' = "running"
              /\ config' = SubConfig(launch.work_dir, launch.out_dir,
                                     CommandOf(app, launch))
              /\ RunnerReturn(1, "Failed to get container ID")
              /\ failure' = "start"
         [] outcome = "rejected" ->
              /\ RunnerReturn(1, "Failed to start container")
              /\ failure' = "start"
              /\ UNCHANGED <<container, config>>
         [] outcome = "oserror" ->
              /\ RunnerReturn(1, "Docker subprocess error")
              /\ failure' = "start"
              /\ UNCHANGED <<container, config>>
  /\ UNCHANGED <<pvars, peer, rvars, inputs, stages, strace, jsonl, runjson, status,
                 traced, warned, pos, count, reader, raised, ret>>

\* subprocess.run(["docker", "wait", id], check=False): the result is ignored
SubWait ==
  /\ pc = "sub_wait"
  /\ \/ /\ container = "exited"
        /\ pc' = "sub_inspect"
        /\ UNCHANGED <<exit_code, error, failure>>
     \/ /\ pc' = "sub_inspect"
        /\ failure' = "wait"
        /\ UNCHANGED <<exit_code, error>>
     \/ /\ RunnerReturn(1, "Docker subprocess error")
        /\ failure' = "wait"
  /\ UNCHANGED <<pvars, peer, rvars, inputs, config, stages, strace, jsonl, runjson, container,
                 status, traced, warned, pos, count, reader, raised, ret>>

\* docker inspect --format {{.State.ExitCode}}, then
\* _ensure_strace_file_exists
SubInspect ==
  /\ pc = "sub_inspect"
  /\ \/ /\ \E inspected \in BOOLEAN :
             /\ exit_code' = IF ~inspected THEN 1
                             ELSE IF container = "exited" THEN status ELSE 0
             /\ failure' = IF inspected THEN failure ELSE "inspect"
        /\ strace' = EnsureStraceFileExists(strace)
        /\ pc' = "sub_rm"
        /\ UNCHANGED error
     \/ /\ RunnerReturn(1, "Docker subprocess error")
        /\ failure' = "inspect"
        /\ UNCHANGED strace
  /\ UNCHANGED <<pvars, peer, rvars, inputs, config, stages, jsonl, runjson, container, status,
                 traced, warned, pos, count, reader, raised, ret>>

\* subprocess.run(["docker", "rm", id], check=False), then
\* return exit_code, None
SubRm ==
  /\ pc = "sub_rm"
  /\ \/ /\ container = "exited"
        /\ container' = "removed"
        /\ RunnerReturn(exit_code, NoError)
        /\ UNCHANGED failure
     \/ /\ RunnerReturn(exit_code, NoError)
        /\ failure' = "remove"
        /\ UNCHANGED container
     \/ /\ RunnerReturn(1, "Docker subprocess error")
        /\ failure' = "remove"
        /\ UNCHANGED container
  /\ UNCHANGED <<pvars, peer, rvars, inputs, config, stages, strace, jsonl, runjson, status,
                 traced, warned, pos, count, reader, raised, ret>>

\* ------------------------------------------------------------ coordinators
\* watch_command up to the call of run_docker_command
WatchStart ==
  /\ pc = "idle"
  /\ cmd = "watch"
  /\ pc' = "watch_call"
  /\ UNCHANGED <<pvars, peer, rvars, inputs, config, failure, reader, stages, strace, jsonl, runjson,
                 container, status, traced, exit_code, error, warned, pos,
                 count, raised, ret>>

\* run_docker_command(command=, work_dir=, image=, strace_output_path=,
\* logs_output_path=): the function has no parameter logs_output_path
WatchCall ==
  /\ pc = "watch_call"
  /\ stages' = Append(stages, "Running")
  /\ raised' = "TypeError"
  /\ pc' = "crashed"
  /\ UNCHANGED <<pvars, peer, rvars, inputs, config, failure, reader, strace, jsonl, runjson, container,
                 status, traced, exit_code, error, warned, pos, count, ret>>

\* run_app_command: validate_app_directory, return 1 on AppValidationError
AppValidate ==
  /\ pc = "idle"
  /\ cmd = "run_app"
  /\ LET app_meta == validate_app_directory(app)
     IN  IF "raised" \in DOMAIN app_meta
         THEN /\ stderr' = app_meta.message
              /\ ret' = 1
              /\ pc' = "returned"
         ELSE /\ pc' = "app_call"
              /\ UNCHANGED <<stderr, ret>>
  /\ UNCHANGED <<line, out, entry_point, peer, rvars, inputs, config, failure, reader, stages, strace, jsonl, runjson,
                 container, status, traced, exit_code, error, warned, pos,
                 count, raised>>

\* run_python_app: DockerRunner(image).run_with_strace picks the strategy
AppCall ==
  /\ pc = "app_call"
  /\ stages' = Append(stages, "Running")
  /\ pc' = IF client THEN "sdk_run" ELSE "sub_run"
  /\ UNCHANGED <<pvars, peer, rvars, inputs, config, failure, reader, strace, jsonl, runjson, container,
                 status, traced, exit_code, error, warned, pos, count, raised,
                 ret>>

\* if error: print warning; then parse_to_jsonl opens egress.jsonl for
\* writing, or egress.jsonl is touched when there is no trace file
StartParsing ==
  /\ pc = "returned_from_runner"
  /\ warned' = (error # NoError)
  /\ stages' = Append(stages, "Parsing")
  /\ IF strace.exists
     THEN /\ jsonl' = File(<<>>)
          /\ reader' = [called |-> TRUE, snapshot |-> strace.lines,
                        lines |-> <<>>]
          /\ pc' = "parse"
     ELSE /\ jsonl' = Touch(jsonl)
          /\ UNCHANGED reader
          /\ pc' = "count"
  /\ pos' = 1
  /\ count' = 0
  /\ UNCHANGED <<pvars, peer, rvars, inputs, config, failure, strace, runjson, container, status,
                 traced, exit_code, error, raised, ret>>

\* parse_strace_file / parse_to_jsonl: one line of the loop
ParseStep ==
  /\ pc = "parse"
  /\ pos <= Len(strace.lines)
  /\ LET event == parse_strace_line(strace.lines[pos])
     IN  IF IsRaise(event)
         THEN /\ raised' = event.raised
              /\ pc' = "crashed"
              /\ UNCHANGED <<jsonl, count, pos>>
         ELSE /\ IF IsEvent(event)
                 THEN /\ jsonl' = WriteRecord(jsonl, event)
                      /\ count' = count + 1
                 ELSE UNCHANGED <<jsonl, count>>
              /\ pos' = pos + 1
              /\ UNCHANGED <<raised, pc>>
  /\ reader' = [reader EXCEPT !.lines = Append(@, strace.lines[pos])]
  /\ UNCHANGED <<pvars, peer, rvars, inputs, config, failure, stages, strace, runjson, container,
                 status, traced, exit_code, error, warned, ret>>

\* parse_to_jsonl returns count at the end of the file
ParseEnd ==
  /\ pc = "parse"
  /\ pos > Len(strace.lines)
  /\ pc' = "count"
  /\ UNCHANGED <<pvars, peer, rvars, inputs, config, failure, reader, stages, strace, jsonl, runjson,
                 container, status, traced, exit_code, error, warned, pos,
                 count, raised, ret>>

\* count_events_from_jsonl, generate_metadata, write_metadata
Aggregate ==
  /\ pc = "count"
  /\ stages' = Append(stages, "Aggregated")
  /\ runjson' = generate_metadata(exit_code, count_events_from_jsonl(jsonl))
  /\ pc' = "summary"
  /\ UNCHANGED <<pvars, peer, rvars, inputs, config, failure, reader, strace, jsonl, container, status,
                 traced, exit_code, error, warned, pos, count, raised, ret>>

\* print the summary, return exit_code
Return ==
  /\ pc = "summary"
  /\ stages' = Append(stages, "Done")
  /\ ret' = exit_code
  /\ pc' = "returned"
  /\ UNCHANGED <<pvars, peer, rvars, inputs, config, failure, reader, strace, jsonl, runjson, container,
                 status, traced, exit_code, error, warned, pos, count, raised>>

\* ------------------------------------------- backend: report endpoints
NotWritten == <<>>

\* the values uuid.uuid4() can give, and the ids a request can name
ReportIds == {"1b4e28ba", "6fa459ea"}

RequestIds == ReportIds \cup {"00000000"}

NoReport ==
  [stored |-> FALSE, id |-> "", summary |-> compute_aggregates(<<>>),
   top_events |-> <<>>, flags |-> <<>>]

\* the row an earlier upload of an empty file left in the table
OldRow ==
  [stored |-> TRUE, id |-> "1b4e28ba", summary |-> compute_aggregates(<<>>),
   top_events |-> <<>>,
   flags |-> calculate_flags(<<>>, compute_aggregates(<<>>))]

\* a response: the status, the report_id of the request, the flags
NoResponse == [status |-> 0, id |-> "", flags |-> <<>>]

\* HTTPException(status_code=404, detail="Report not found")
NotFound(id) == [status |-> 404, id |-> id, flags |-> <<>>]

\* the response of get_report_events
NoListing == [status |-> 0, id |-> "", total |-> 0, returned |-> 0, events |-> <<>>]

\* limit: Optional[int] = Query(None, ge=1, le=1000), None as 0
Limits == {0, 1, 1000}

\* db.query(Report).filter(Report.id == report_id): the rows with that id
RowsWithId(id) == {r \in db : r.id = id}

\* the thresholds a caller can ask the flagging engine to use: none (the
\* module constants apply), the module's values, or lower ones
NotPassed ==
  [passed |-> FALSE, high_dest |-> HIGH_DEST_THRESHOLD,
   failure |-> FAILURE_THRESHOLD, usual_ports |-> USUAL_PORTS]

Thresholds ==
  {NotPassed,
   [NotPassed EXCEPT !.passed = TRUE],
   [NotPassed EXCEPT !.passed = TRUE, !.high_dest = 0],
   [NotPassed EXCEPT !.passed = TRUE, !.failure = Rate(0, 1)],
   [NotPassed EXCEPT !.passed = TRUE, !.usual_ports = {}]}

NotCalled == [called |-> FALSE, asked |-> NotPassed, raised |-> "none", flags |-> <<>>]

\* calculate_flags(events, summary, ...): the function has the two
\* parameters events and summary, a call that passes a threshold is a
\* TypeError
CallWith(t, evs, summary) ==
  IF t.passed
  THEN [called |-> TRUE, asked |-> t, raised |-> "TypeError", flags |-> <<>>]
  ELSE [called |-> TRUE, asked |-> t, raised |-> "none",
        flags |-> calculate_flags(evs, summary)]

\* the reports API is not in use
ReportIdle ==
  /\ trace = <<>> /\ uploaded = NotWritten /\ events = <<>>
  /\ report = NoReport /\ shown = NoResponse /\ exported = NoResponse
  /\ db = {} /\ listing = NoListing
  /\ engine = NotCalled
  /\ rpc = "off"

\* no coordinator is running
CoordIdle ==
  /\ cmd = "watch" /\ app = GoodApp /\ client = FALSE
  /\ launch = SeparateOut /\ config = NoConfig
  /\ pc = "idle" /\ stages = <<"Idle">>
  /\ reader = NotOpened /\ failure = "none"
  /\ strace = Absent /\ jsonl = Absent /\ runjson = NoMetadata
  /\ container = "none" /\ status = 0 /\ traced = FALSE
  /\ exit_code = 0 /\ error = NoError /\ warned = FALSE
  /\ pos = 1 /\ count = 0 /\ raised = "none" /\ ret = NotReturned

ReportInit ==
  /\ trace \in ShortTraces \cup LongTraces
  /\ uploaded = NotWritten /\ events = <<>>
  /\ report = NoReport /\ shown = NoResponse /\ exported = NoResponse
  /\ db = {OldRow} /\ listing = NoListing
  /\ engine = NotCalled
  /\ rpc = "trace"
  /\ CoordIdle
  /\ line = BlankLine /\ out = Pending /\ entry_point = Pending /\ stderr = ""
  /\ peer = NoPeer

\* parse_strace_line on one line of the loop of parse_strace_file
YieldedBy(l) ==
  LET e == parse_strace_line(l)
  IN  IF IsRaise(e) THEN [raised |-> e.raised, events |-> <<>>]
      ELSE [raised |-> "none", events |-> IF IsEvent(e) THEN <<e>> ELSE <<>>]

\* parse_strace_file: the events yielded, up to the line that raises
RECURSIVE parse_strace_file(_)
parse_strace_file(lines) ==
  IF lines = <<>> THEN [raised |-> "none", events |-> <<>>]
  ELSE IF Len(lines) = 1 THEN YieldedBy(lines[1])
  ELSE LET h == Len(lines) \div 2
           a == parse_strace_file(SubSeq(lines, 1, h))
           b == parse_strace_file(SubSeq(lines, h + 1, Len(lines)))
       IN  IF a.raised # "none" THEN a
           ELSE [raised |-> b.raised, events |-> a.events \o b.events]

\* parse_to_jsonl over the whole trace: one json.dumps(event) per line
ParseToJsonl ==
  /\ rpc = "trace"
  /\ uploaded' = Each(json_dumps, parse_strace_file(trace).events)
  /\ rpc' = "artifact"
  /\ UNCHANGED <<pvars, peer, cvars, trace, events, report, db, shown, exported,
                 listing, engine>>

\* mutant of ReadEvent: a line that does not load or validate is passed
\* over
ReadEvent_SkipInvalid(l) ==
  LET d == json_loads(l)
      e == IF IsRaise(d) THEN d ELSE EventSchema(d)
  IN  IF l.kind = "blank" \/ IsRaise(e) THEN [raised |-> "none", events |-> <<>>]
      ELSE [raised |-> "none", events |-> <<e>>]

\* the loop of upload_report: json.loads and EventSchema line by line; the
\* events read and the exception of the first line that is not an event
ReadEvent(l) ==
  LET d == json_loads(l)
      e == IF IsRaise(d) THEN d ELSE EventSchema(d)
  IN  IF l.kind = "blank" THEN [raised |-> "none", events |-> <<>>]
      ELSE IF IsRaise(e) THEN [raised |-> e.raised, events |-> <<>>]
      ELSE [raised |-> "none", events |-> <<e>>]

RECURSIVE ReadEvents(_)
ReadEvents(lines) ==
  IF lines = <<>> THEN [raised |-> "none", events |-> <<>>]
  ELSE IF Len(lines) = 1 THEN ReadEvent(lines[1])
  ELSE LET h == Len(lines) \div 2
           a == ReadEvents(SubSeq(lines, 1, h))
           b == ReadEvents(SubSeq(lines, h + 1, Len(lines)))
       IN  IF a.raised # "none" THEN a
           ELSE [raised |-> b.raised, events |-> a.events \o b.events]

\* content.decode("utf-8"): a byte sequence that is not UTF-8 anywhere in
\* the file raises UnicodeDecodeError before a line is read
Decodes(file) == \A i \in 1..Len(file) : file[i].kind # "undecodable"

\* POST /api/reports/upload; any exception is answered with status 400
\* before a row is made; model_dump() of an event and EventSchema(**event)
\* of the stored dict keep every field
UploadReport ==
  /\ rpc = "artifact"
  /\ LET read == IF Decodes(uploaded) THEN ReadEvents(uploaded)
                 ELSE [raised |-> "UnicodeDecodeError", events |-> <<>>]
     IN  IF read.raised # "none"
         THEN /\ rpc' = "rejected"
              /\ UNCHANGED <<events, report, db>>
         ELSE LET summary == compute_aggregates(read.events)
                  top_events == Take(read.events, TOP_EVENTS)
                  flags == calculate_flags(read.events, summary)
              IN  \E report_id \in ReportIds \ {r.id : r \in db} :
                    /\ events' = read.events
                    /\ report' = [stored |-> TRUE, id |-> report_id,
                                  summary |-> summary,
                                  top_events |-> top_events,
                                  flags |-> flags]
                    /\ db' = db \cup {report'}
                    /\ rpc' = "stored"
  /\ UNCHANGED <<pvars, peer, cvars, trace, uploaded, shown, exported, listing,
                 engine>>

\* GET /api/reports/{report_id}; a behaviour makes one request after the
\* upload
GetReport ==
  /\ rpc \in {"stored", "rejected"}
  /\ rpc' = "served"
  /\ \E report_id \in RequestIds :
       IF RowsWithId(report_id) = {} THEN shown' = NotFound(report_id)
       ELSE LET row == CHOOSE r \in RowsWithId(report_id) : TRUE
                all_events == row.top_events
            IN  shown' = [status |-> 200, id |-> row.id,
                          flags |-> calculate_flags(all_events, row.summary)]
  /\ UNCHANGED <<pvars, peer, cvars, trace, uploaded, events, report, db,
                 exported, listing, engine>>

\* GET /api/reports/{report_id}/events
GetReportEvents ==
  /\ rpc \in {"stored", "rejected"}
  /\ rpc' = "served"
  /\ \E report_id \in RequestIds, limit \in Limits :
       IF RowsWithId(report_id) = {}
       THEN listing' = [NoListing EXCEPT !.status = 404, !.id = report_id]
       ELSE LET row == CHOOSE r \in RowsWithId(report_id) : TRUE
                evs == IF limit # 0 THEN Take(row.top_events, limit)
                       ELSE row.top_events
            IN  listing' = [status |-> 200, id |-> report_id,
                           total |-> Len(row.top_events),
                           returned |-> Len(evs), events |-> evs]
  /\ UNCHANGED <<pvars, peer, cvars, trace, uploaded, events, report, db,
                 shown, exported, engine>>

\* GET /api/reports/{report_id}/export.md: the Flags section
ExportMarkdown ==
  /\ rpc \in {"stored", "rejected"}
  /\ rpc' = "served"
  /\ \E report_id \in RequestIds :
       IF RowsWithId(report_id) = {} THEN exported' = NotFound(report_id)
       ELSE LET row == CHOOSE r \in RowsWithId(report_id) : TRUE
            IN  exported' = [status |-> 200, id |-> row.id, flags |-> row.flags]
  /\ UNCHANGED <<pvars, peer, cvars, trace, uploaded, events, report, db,
                 shown, listing, engine>>

\* a test suite or policy layer calls the flagging engine on the events
\* of the upload
CallFlagEngine ==
  /\ rpc = "stored"
  /\ rpc' = "served"
  /\ \E t \in Thresholds : engine' = CallWith(t, events, report.summary)
  /\ UNCHANGED <<pvars, peer, cvars, trace, uploaded, events, report, db,
                 shown, exported, listing>>

ReportNext ==
  ParseToJsonl \/ UploadReport \/ GetReport \/ ExportMarkdown \/ CallFlagEngine

ReportSpec == ReportInit /\ [][ReportNext]_vars

\* ------------------------------------- backend: uploads of any origin
\* a line of a JSONL file another tool wrote: a connect to port 443 of
\* host over proto with the member resolved_domain
EnrichedLine(proto, host, domain) ==
  LET written == json_dumps([parse_strace_file(<<GoodLine>>).events[1]
                               EXCEPT !.proto = proto, !.dst_ip = host])
  IN  [f \in DOMAIN written \cup {"resolved_domain"} |->
         IF f = "resolved_domain" THEN domain ELSE written[f]]

HostA == <<"1", "0", ".", "0", ".", "0", ".", "1">>

HostB == <<"1", "0", ".", "0", ".", "0", ".", "2">>

DomainA == <<"a", ".", "x">>

DomainB == <<"b", ".", "x">>

\* a line whose pid is a string that is no number, and bytes that are
\* not UTF-8
BadPidLine ==
  [EnrichedLine("tcp", HostA, JsonNull) EXCEPT !.pid = DumpsText(<<"x">>)]

UndecodableLine ==
  [EnrichedLine("tcp", HostA, JsonNull) EXCEPT !.kind = "undecodable"]

\* a line that is no JSON document and a line of white space
GarbageJsonLine == [EnrichedLine("tcp", HostA, JsonNull) EXCEPT !.kind = "garbage"]

BlankEnrichedLine == [EnrichedLine("tcp", HostA, JsonNull) EXCEPT !.kind = "blank"]

ForeignLines ==
  {EnrichedLine("tcp", HostA, DumpsText(DomainA)),
   EnrichedLine("udp", HostA, JsonNull),
   EnrichedLine("tcp", HostA, DumpsText(DomainB)),
   EnrichedLine("tcp", HostA, DumpsText(<<>>)),
   EnrichedLine("udp", HostB, DumpsText(DomainB)),
   BlankEnrichedLine, GarbageJsonLine, BadPidLine, UndecodableLine}

\* files of the parser with more events than a report keeps, one with a
\* blank line after the first event, one with a line that is no JSON at
\* the end
LongUploads ==
  LET written == Each(json_dumps,
                      parse_strace_file(LongTrace(TOP_EVENTS + 1,
                                                  HIGH_DEST_THRESHOLD + 1,
                                                  6, TOP_EVENTS + 1,
                                                  FALSE)).events)
  IN  {written,
       <<Head(written), BlankJsonLine>> \o Tail(written),
       written \o <<GarbageLine>>}

UploadInit ==
  /\ trace = <<>>
  /\ uploaded \in SeqsUpTo(ForeignLines, MaxEvents) \cup LongUploads
  /\ events = <<>>
  /\ report = NoReport /\ shown = NoResponse /\ exported = NoResponse
  /\ db = {OldRow} /\ listing = NoListing
  /\ engine = NotCalled
  /\ rpc = "artifact"
  /\ CoordIdle
  /\ line = BlankLine /\ out = Pending /\ entry_point = Pending /\ stderr = ""
  /\ peer = NoPeer

UploadNext ==
  UploadReport \/ GetReport \/ GetReportEvents \/ ExportMarkdown

UploadSpec == UploadInit /\ [][UploadNext]_vars

Init ==
  /\ CoordInit
  /\ ReportIdle
  /\ line = BlankLine
  /\ out = Pending
  /\ entry_point = Pending /\ stderr = ""
  /\ peer = NoPeer

Next ==
  \/ WatchStart \/ WatchCall
  \/ AppValidate \/ AppCall
  \/ SdkRun \/ SdkWait \/ SdkRemove
  \/ SubRun \/ SubWait \/ SubInspect \/ SubRm
  \/ ContainerExit
  \/ StartParsing \/ ParseStep \/ ParseEnd \/ Aggregate \/ Return

Spec == Init /\ [][Next]_vars

\* --------------------------------------- two invocations at the same time
\* a second egresslens run-app runs the same pipeline in a process of its
\* own; of its steps the model keeps what they do to the files of this
\* run's output directory, which they reach when both were given the same
\* --out (or both the default, from the same working directory)
SameDir == peer.out_dir = launch.out_dir

\* what the tracer of the other run can write: nothing, a refused connect,
\* a line the parser raises on
PeerTraces == {<<>>, <<RefusedLine>>, <<BadTsLine>>}

\* output_dir.mkdir(parents=True, exist_ok=True), run_python_app
PeerLaunch ==
  /\ peer.pc = "idle"
  /\ peer' = [peer EXCEPT !.pc = "running"]
  /\ UNCHANGED <<pvars, cvars, rvars>>

\* the peer's container writes /output/egress.strace
PeerTrace ==
  /\ peer.pc = "running"
  /\ IF SameDir
     THEN /\ \E c \in PeerTraces : strace' = File(c)
          /\ peer' = [peer EXCEPT !.pc = "traced", !.wrote = @ \cup {"egress.strace"}]
     ELSE /\ peer' = [peer EXCEPT !.pc = "traced"]
          /\ UNCHANGED strace
  /\ UNCHANGED <<pvars, rvars, inputs, config, pc, stages, jsonl, runjson,
                 container, status, traced, exit_code, error, warned, pos,
                 count, reader, failure, raised, ret>>

\* the peer's parse_to_jsonl(strace_path, jsonl_path), then
\* count_events_from_jsonl and write_metadata unless the parser raised
PeerParse ==
  /\ peer.pc = "traced"
  /\ IF SameDir
     THEN LET written == File(JsonlLeftBy(strace.lines))
              crashed == parse_strace_file(strace.lines).raised # "none"
          IN  /\ jsonl' = written
              /\ runjson' = IF crashed THEN runjson
                            ELSE generate_metadata(0, count_events_from_jsonl(written))
              /\ peer' = [peer EXCEPT
                            !.pc = "done",
                            !.wrote = @ \cup (IF crashed THEN {"egress.jsonl"}
                                              ELSE {"egress.jsonl", "run.json"})]
     ELSE /\ peer' = [peer EXCEPT !.pc = "done"]
          /\ UNCHANGED <<jsonl, runjson>>
  /\ UNCHANGED <<pvars, rvars, inputs, config, pc, stages, strace, container,
                 status, traced, exit_code, error, warned, pos, count, reader,
                 failure, raised, ret>>

TwoRunsInit ==
  /\ cmd = "run_app" /\ app = GoodApp
  /\ client \in BOOLEAN
  /\ launch = SeparateOut /\ config = NoConfig
  /\ pc = "idle" /\ stages = <<"Idle">>
  /\ reader = NotOpened /\ failure = "none"
  /\ strace = Absent /\ jsonl = Absent /\ runjson = NoMetadata
  /\ container = "none" /\ status = 0 /\ traced = FALSE
  /\ exit_code = 0 /\ error = NoError /\ warned = FALSE
  /\ pos = 1 /\ count = 0 /\ raised = "none" /\ ret = NotReturned
  /\ ReportIdle
  /\ line = BlankLine /\ out = Pending /\ entry_point = Pending /\ stderr = ""
  /\ peer \in {[NoPeer EXCEPT !.pc = "idle", !.out_dir = d] :
                 d \in {OutDir, OtherOutDir}}

TwoRunsNext ==
  \/ AppValidate \/ AppCall
  \/ SdkRun \/ SdkWait \/ SdkRemove
  \/ SubRun \/ SubWait \/ SubInspect \/ SubRm
  \/ ContainerExit
  \/ StartParsing \/ ParseStep \/ ParseEnd \/ Aggregate \/ Return
  \/ PeerLaunch \/ PeerTrace \/ PeerParse

TwoRunsSpec == TwoRunsInit /\ [][TwoRunsNext]_vars

\* ------------------------------- DockerRunner.run_with_strace on its own
\* run_python_app has built the command; run_with_strace picks the strategy
RunnerInit ==
  /\ cmd = "run_app" /\ app = GoodApp
  /\ client \in BOOLEAN
  /\ launch \in Launches
  /\ config = NoConfig
  /\ pc = IF client THEN "sdk_run" ELSE "sub_run"
  /\ stages = <<"Idle", "Running">>
  /\ reader = NotOpened /\ failure = "none"
  /\ strace \in {Absent} \cup {File(c) : c \in StaleContents}
  /\ jsonl = IF strace.exists THEN File(JsonlLeftBy(strace.lines)) ELSE Absent
  /\ runjson = NoMetadata
  /\ container = "none" /\ status = 0 /\ traced = FALSE
  /\ exit_code = 0 /\ error = NoError /\ warned = FALSE
  /\ pos = 1 /\ count = 0 /\ raised = "none" /\ ret = NotReturned
  /\ ReportIdle
  /\ line = BlankLine /\ out = Pending /\ entry_point = Pending /\ stderr = ""
  /\ peer = NoPeer

RunnerNext ==
  \/ SdkRun \/ SdkWait \/ SdkRemove
  \/ SubRun \/ SubWait \/ SubInspect \/ SubRm
  \/ ContainerExit

RunnerSpec == RunnerInit /\ [][RunnerNext]_vars

\* ---------------------------------------------- parser, one line at a time
ParserInit ==
  /\ line \in Lines
  /\ out = Pending
  /\ entry_point = Pending /\ stderr = ""
  /\ peer = NoPeer
  /\ cmd = "watch" /\ app = GoodApp /\ client = FALSE
  /\ launch = SeparateOut /\ config = NoConfig
  /\ pc = "idle" /\ stages = <<"Idle">>
  /\ reader = NotOpened /\ failure = "none"
  /\ strace = Absent /\ jsonl = Absent /\ runjson = NoMetadata
  /\ container = "none" /\ status = 0 /\ traced = FALSE
  /\ exit_code = 0 /\ error = NoError /\ warned = FALSE
  /\ pos = 1 /\ count = 0 /\ raised = "none" /\ ret = NotReturned
  /\ ReportIdle

ParseLine ==
  /\ out = Pending
  /\ out' = parse_strace_line(line)
  /\ UNCHANGED <<line, entry_point, stderr, peer, cvars, rvars>>

ParserNext == ParseLine

ParserSpec == ParserInit /\ [][ParserNext]_vars

\* -------------------------------------- discover_entry_point on its own
DiscoverInit ==
  /\ cmd = "run_app" /\ app \in AppDirs /\ client = FALSE
  /\ entry_point = Pending /\ stderr = ""
  /\ launch = SeparateOut /\ config = NoConfig
  /\ pc = "idle" /\ stages = <<"Idle">>
  /\ reader = NotOpened /\ failure = "none"
  /\ strace = Absent /\ jsonl = Absent /\ runjson = NoMetadata
  /\ container = "none" /\ status = 0 /\ traced = FALSE
  /\ exit_code = 0 /\ error = NoError /\ warned = FALSE
  /\ pos = 1 /\ count = 0 /\ raised = "none" /\ ret = NotReturned
  /\ ReportIdle
  /\ line = BlankLine /\ out = Pending
  /\ peer = NoPeer

\* entry_point = discover_entry_point(app_path_obj)
DiscoverEntryPoint ==
  /\ entry_point = Pending /\ stderr = ""
  /\ entry_point' = [name |-> discover_entry_point(app)]
  /\ UNCHANGED <<line, out, stderr, peer, cvars, rvars>>

DiscoverNext == DiscoverEntryPoint

DiscoverSpec == DiscoverInit /\ [][DiscoverNext]_vars

\* ================================================================ claims
FullOrder == <<"Idle", "Running", "Parsing", "Aggregated", "Done">>

IsPrefix(a, b) == Len(a) <= Len(b) /\ a = SubSeq(b, 1, Len(a))

Finished == pc \in {"returned", "crashed"}

\* C1: for every command, image and sandbox outcome the coordinator returns
\* normally (no exception leaves it) having written egress.jsonl and
\* run.json; when the sandbox never launched, the result reports zero
\* events, exit code 1 and a warning.
C1_AlwaysProducesRunResult ==
  /\ raised = "none"
  /\ (pc = "returned" /\ stage = "Done") => (jsonl.exists /\ runjson.exists)
  /\ (pc = "returned" /\ stage = "Done" /\ container = "none")
       => (runjson.total_events = 0 /\ runjson.exit_code = 1 /\ warned)

\* C2: every failure of the chosen launch strategy (start, wait, exit-code
\* retrieval, removal) is returned as (1, non-null message), and after a
\* launch that failed the parse stage yields zero events whatever the
\* output directory held before.
C2_FailureIsDegradedResult ==
  /\ (pc = "returned_from_runner" /\ failure # "none")
       => (exit_code = 1 /\ error # NoError)
  /\ (runjson.exists /\ container = "none") => runjson.total_events = 0

\* C3: the stages of a coordinator run occur in the order Idle, Running,
\* Parsing, Aggregated, Done, none twice, and a run that entered Running
\* goes on through Parsing and Aggregated to Done.
C3_StagesInOrderToDone ==
  /\ IsPrefix(stages, FullOrder)
  /\ (Finished /\ Len(stages) > 1) => stage = "Done"

\* C4: for any line of a trace file parse_strace_line never raises.
C4_ParserNeverRaises == ~IsRaise(out)

\* the values written on the line, for the tokens of the line set
ExpectedPid(tok) == CASE tok = <<"1", "2">> -> 12 [] tok = <<"0", "7">> -> 7

ExpectedPort(tok) ==
  CASE tok = <<"4", "4", "3">> -> 443
    [] tok = <<"9", "9", "9", "9", "9">> -> 99999
    [] tok = <<"0">> -> 0

ExpectedTs(tok) ==
  CASE tok = <<"1", ".", "5">> -> [int |-> 1, frac |-> <<"5">>]
    [] tok = <<"2", ".">> -> [int |-> 2, frac |-> <<>>]

\* C5: an emitted event has result = ok iff the return code written on the
\* line is 0 and result = error otherwise; errno is the token trailing the
\* return code when there is one and null otherwise; pid, timestamp,
\* destination port and destination IP are the values written on the line.
C5_EventCarriesLineValues ==
  IsEvent(out) =>
    /\ out.result = (IF line.ret = <<"0">> THEN "ok" ELSE "error")
    /\ out.errno = (IF line.errno = <<>> THEN None ELSE line.errno)
    /\ out.pid = ExpectedPid(line.pid)
    /\ out.ts = ExpectedTs(line.ts)
    /\ out.dst_port = ExpectedPort(line.port)
    /\ out.dst_ip = line.ip

C5_Witness ==
  /\ IsEvent(out)
  /\ out.result = "error" /\ out.errno = ECONNREFUSED
  /\ out.pid = 7 /\ out.dst_port = 443

InProgress(l) == l.ret = <<"-", "1">> /\ l.errno = EINPROGRESS

\* C6 as claimed: result = ok iff the connect returned 0 or returned -1
\* with EINPROGRESS.
C6_OkIffSuccessOrInProgress ==
  IsEvent(out) => (out.result = "ok" <=> (line.ret = <<"0">> \/ InProgress(line)))

\* C6 as amended: result = ok iff the connect returned 0; a return of -1
\* with EINPROGRESS is reported as result = error with errno EINPROGRESS.
C6_OkIffZero ==
  IsEvent(out) =>
    /\ out.result = "ok" <=> line.ret = <<"0">>
    /\ InProgress(line) => (out.result = "error" /\ out.errno = EINPROGRESS)

C6_Witness == IsEvent(out) /\ InProgress(line) /\ out.result = "error"

NonDot == WordChar \cup {"-"}

RECURSIVE SplitDots(_)
SplitDots(tok) ==
  LET h == PrefixIn(tok, NonDot)
  IN  IF Len(h) = Len(tok) THEN <<h>>
      ELSE <<h>> \o SplitDots(SubSeq(tok, Len(h) + 2, Len(tok)))

IsDottedQuad(tok) ==
  LET ps == SplitDots(tok)
  IN  /\ Len(ps) = 4
      /\ \A i \in 1..Len(ps) :
           ps[i] # <<>> /\ AllIn(ps[i], Digit) /\ DecValue(ps[i]) <= 255

\* C7: every emitted event has destination_port in 0..65535 and a
\* destination_ip that is an IPv4 dotted quad.
C7_PortAndAddressValid ==
  IsEvent(out) => (out.dst_port \in 0..65535 /\ IsDottedQuad(out.dst_ip))

\* C8: an emitted event with result = ok has errno = null.
C8_ErrnoOnlyOnError ==
  (IsEvent(out) /\ out.result = "ok") => out.errno = None

\* C9: a line that carries the family marker sa_family=AF_INET6 yields no
\* event, whatever else is on the line.
C9_Inet6NeverEmitted ==
  (line.kind = "record" /\ line.fam = "AF_INET6") => ~IsEvent(out)

\* the events of the lines ls, line by line
RECURSIVE EventsOf(_)
EventsOf(ls) ==
  IF ls = <<>> THEN <<>>
  ELSE LET e == parse_strace_line(Head(ls))
       IN  (IF IsEvent(e) THEN <<e>> ELSE <<>>) \o EventsOf(Tail(ls))

\* C10: the records written to egress.jsonl are, in order, the events of
\* the matching lines read so far, none twice and none held back;
\* parse_to_jsonl returns the number of records written, having read the
\* whole file.
C10_RecordsInLineOrder ==
  reader.called =>
    /\ jsonl.lines = Each(json_dumps, EventsOf(reader.lines))
    /\ count = Len(jsonl.lines)
    /\ IsPrefix(reader.lines, reader.snapshot) \/ strace.lines # reader.snapshot
    /\ (pc \in {"count", "summary", "returned"} /\ strace.lines = reader.snapshot)
         => reader.lines = reader.snapshot

C10_Witness ==
  /\ pc = "returned"
  /\ reader.called
  /\ count = 2
  /\ jsonl.lines[1] # jsonl.lines[2]

\* ---------------------------------------------------- claims: the backend
\* an upload was read, aggregated and stored
Stored == report.stored

FailingEvents == {i \in 1..Len(events) : events[i].result # "ok"}

\* C11: for any event list E, compute_aggregates(E) reports total_events =
\* len(E), failures = the number of events whose result is not ok and
\* failure_rate = failures / len(E), with failure_rate 0.0, every count 0
\* and no top destination when E is empty; the upload of a readable file is
\* never turned down, so aggregation fails on no event list.
C11_TotalsFailuresAndRate ==
  /\ Stored =>
       LET s == report.summary
       IN  /\ s.total_events = Len(events)
           /\ s.failures = Cardinality(FailingEvents)
           /\ s.failure_rate.den > 0
           /\ s.failure_rate.num * Len(events)
                = Cardinality(FailingEvents) * s.failure_rate.den
           /\ events = <<>> =>
                /\ s.failure_rate = Rate(0, 1)
                /\ s.unique_ips = 0 /\ s.unique_ports = 0
                /\ s.unique_destinations = 0
                /\ s.top_destinations = <<>>
  /\ rpc = "rejected" => ReadEvents(uploaded).raised # "none"

C11_Witness ==
  /\ Stored
  /\ report.summary.total_events = 3
  /\ report.summary.failures = 2
  /\ report.summary.failure_rate = Rate(2, 3)

\* the sum of the counts of a Counter, one half after the other
RECURSIVE SumOfCounts(_)
SumOfCounts(c) ==
  IF c = <<>> THEN 0
  ELSE IF Len(c) = 1 THEN c[1].count
  ELSE LET h == Len(c) \div 2
       IN  SumOfCounts(SubSeq(c, 1, h)) + SumOfCounts(SubSeq(c, h + 1, Len(c)))

\* C12: for any event list, unique_destinations is the number of distinct
\* (ip, port) pairs, unique_ips the number of distinct IPs and unique_ports
\* the number of distinct ports of the events, and the counts of all
\* destination pairs add up to total_events.
C12_DistinctCountsAndSum ==
  Stored =>
    LET s == report.summary
        at == 1..Len(events)
    IN  /\ s.unique_destinations
             = Cardinality({<<events[i].dst_ip, events[i].dst_port>> : i \in at})
        /\ s.unique_ips = Cardinality({events[i].dst_ip : i \in at})
        /\ s.unique_ports = Cardinality({events[i].dst_port : i \in at})
        /\ SumOfCounts(Counter(Each(Dest, events))) = s.total_events
        /\ Len(Counter(Each(Dest, events))) = s.unique_destinations

C12_Witness ==
  /\ Stored
  /\ report.summary.total_events = TOP_EVENTS + 1
  /\ report.summary.unique_destinations = HIGH_DEST_THRESHOLD + 3
  /\ report.summary.unique_ips = HIGH_DEST_THRESHOLD + 2
  /\ report.summary.unique_ports = 2

\* how often the events go to destination p, and the first event that does
CountOf(p) == Cardinality({i \in 1..Len(events) : Dest(events[i]) = p})

FirstSeen(p) ==
  CHOOSE i \in 1..Len(events) :
    Dest(events[i]) = p /\ \A j \in 1..(i - 1) : Dest(events[j]) # p

\* destination p is listing before destination q: more events, or as many
\* and seen first
ListedBefore(p, q) ==
  \/ CountOf(p) > CountOf(q)
  \/ CountOf(p) = CountOf(q) /\ FirstSeen(p) < FirstSeen(q)

\* C13: top_destinations has at most 50 entries, one per distinct (ip, port)
\* pair, each with the exact number of events of that pair; the entries are
\* in descending order of count, pairs of equal count in first-seen order,
\* and when there are more than 50 pairs the 50 listing are the first 50 of
\* that order.
C13_TopDestinationsOrdered ==
  Stored =>
    LET top == report.summary.top_destinations
        listed == {<<top[i].dst_ip, top[i].dst_port>> : i \in 1..Len(top)}
        pairs == {Dest(events[i]) : i \in 1..Len(events)}
    IN  /\ Len(top) <= TOP_DESTINATIONS
        /\ Len(top) = IF Cardinality(pairs) < TOP_DESTINATIONS
                      THEN Cardinality(pairs) ELSE TOP_DESTINATIONS
        /\ Cardinality(listed) = Len(top)
        /\ listed \subseteq pairs
        /\ \A i \in 1..Len(top) :
             top[i].count = CountOf(<<top[i].dst_ip, top[i].dst_port>>)
        /\ \A i \in 1..(Len(top) - 1) :
             ListedBefore(<<top[i].dst_ip, top[i].dst_port>>,
                          <<top[i + 1].dst_ip, top[i + 1].dst_port>>)
        /\ \A q \in pairs \ listed :
             ListedBefore(<<top[Len(top)].dst_ip, top[Len(top)].dst_port>>, q)

C13_Witness ==
  /\ Stored
  /\ report.summary.unique_destinations > TOP_DESTINATIONS
  /\ Len(report.summary.top_destinations) = TOP_DESTINATIONS
  /\ report.summary.top_destinations[1].count = 2
  /\ report.summary.top_destinations[TOP_DESTINATIONS].count = 1
  /\ report.summary.top_destinations[1].dst_ip # events[1].dst_ip

FlagNames(flags) == {flags[i].name : i \in 1..Len(flags)}

\* the flags whose trigger holds for the events read from the upload
Triggered ==
  LET pairs == {<<events[i].dst_ip, events[i].dst_port>> : i \in 1..Len(events)}
  IN  (IF Cardinality(pairs) > 50 THEN {"High unique destinations"} ELSE {})
      \cup (IF 10 * Cardinality(FailingEvents) > Len(events)
            THEN {"Elevated failure rate"} ELSE {})
      \cup (IF \E i \in 1..Len(events) : events[i].dst_port \notin {80, 443, 53, 22}
            THEN {"Unusual ports"} ELSE {})

\* C14: calculate_flags returns exactly the flags whose trigger holds, each
\* on its own and once, all of severity medium: High unique destinations iff
\* there are more than 50 distinct pairs, Elevated failure rate iff the
\* failure rate is above 0.10, Unusual ports iff some event has a port
\* outside {80, 443, 53, 22}; exactly 50 pairs, a rate of exactly 0.10 and the
\* empty list raise nothing.
C14_FlagsAreTheTriggered ==
  Stored =>
    /\ FlagNames(report.flags) = Triggered
    /\ Len(report.flags) = Cardinality(Triggered)
    /\ \A i \in 1..Len(report.flags) : report.flags[i].severity = "medium"

C14_Witness ==
  /\ Stored
  /\ Len(report.flags) = 3
  /\ report.summary.unique_destinations = HIGH_DEST_THRESHOLD + 1

\* the boundary: 50 pairs and 5 failures of 50, usual ports only
C14_AtTheBoundary ==
  /\ Stored
  /\ report.summary.unique_destinations = HIGH_DEST_THRESHOLD
  /\ report.summary.failure_rate = Rate(5, 50)
  /\ report.flags = <<>>

\* the scenario of C15: 51 events to 51 distinct pairs
FiftyOneToFiftyOne ==
  /\ Stored
  /\ Len(events) = 51
  /\ Cardinality({<<events[i].dst_ip, events[i].dst_port>> : i \in 1..Len(events)}) = 51

UsualPortsOnly == \A i \in 1..Len(events) : events[i].dst_port \in {80, 443, 53, 22}

\* C15 as claimed: any 51 events to 51 distinct pairs with 0 failures raise
\* High unique destinations and nothing else; with 6 of them failing they
\* raise Elevated failure rate in addition.
C15_FiftyOnePairsAnyPorts ==
  FiftyOneToFiftyOne =>
    /\ Cardinality(FailingEvents) = 0 =>
         report.flags = <<Flag("High unique destinations", <<51>>)>>
    /\ Cardinality(FailingEvents) = 6 =>
         /\ Len(report.flags) = 2
         /\ FlagNames(report.flags)
              = {"High unique destinations", "Elevated failure rate"}

\* C15 as amended: 51 events to 51 distinct pairs, all on ports of the
\* allow-set, raise exactly High unique destinations with 0 failures and
\* exactly High unique destinations and Elevated failure rate with 6
\* failures; a port outside the allow-set adds Unusual ports to either.
C15_FiftyOnePairsUsualPorts ==
  FiftyOneToFiftyOne =>
    LET extra == IF UsualPortsOnly THEN {} ELSE {"Unusual ports"}
    IN  /\ Cardinality(FailingEvents) = 0 =>
             /\ FlagNames(report.flags) = {"High unique destinations"} \cup extra
             /\ Len(report.flags) = 1 + Cardinality(extra)
        /\ Cardinality(FailingEvents) = 6 =>
             /\ FlagNames(report.flags)
                  = {"High unique destinations", "Elevated failure rate"} \cup extra
             /\ Len(report.flags) = 2 + Cardinality(extra)

C15_Witness ==
  /\ FiftyOneToFiftyOne
  /\ UsualPortsOnly
  /\ Cardinality(FailingEvents) = 6
  /\ report.flags = <<Flag("High unique destinations", <<51>>),
                      Flag("Elevated failure rate", <<6, 51>>)>>

\* C16: the flags of a stored report are those of the full uploaded event
\* list: the flags get_report returns equal calculate_flags over all uploaded
\* events, which are the flags stored at upload and rendered by export.md;
\* cutting the stored events to the first 100 changes no flag.
C16_FlagsFromAllEvents ==
  /\ Stored => report.flags = calculate_flags(events, compute_aggregates(events))
  /\ (Stored /\ exported.status = 200 /\ exported.id = report.id) =>
       exported.flags = report.flags
  /\ (Stored /\ shown.status = 200 /\ shown.id = report.id) =>
       /\ shown.flags = calculate_flags(events, compute_aggregates(events))
       /\ shown.flags = report.flags

\* the flags that the thresholds t call for on the events of the upload
TriggeredUnder(t) ==
  LET pairs == {<<events[i].dst_ip, events[i].dst_port>> : i \in 1..Len(events)}
  IN  (IF Cardinality(pairs) > t.high_dest THEN {"High unique destinations"} ELSE {})
      \cup (IF RateGreater(Rate(Cardinality(FailingEvents),
                                IF events = <<>> THEN 1 ELSE Len(events)),
                           t.failure)
            THEN {"Elevated failure rate"} ELSE {})
      \cup (IF \E i \in 1..Len(events) : events[i].dst_port \notin t.usual_ports
            THEN {"Unusual ports"} ELSE {})

\* C17: the flagging engine takes its thresholds as parameters and its flags
\* are monotonic in them: called with given thresholds it returns the flags
\* those thresholds call for, and with a lower destination threshold, a
\* lower failure-rate threshold or a smaller port set it returns every flag
\* the module's thresholds give, never fewer.
C17_ThresholdsAreParameters ==
  engine.called =>
    /\ engine.raised = "none"
    /\ FlagNames(engine.flags) = TriggeredUnder(engine.asked)
    /\ FlagNames(report.flags) \subseteq FlagNames(engine.flags)

\* the fields of an event that the parser sets
ParserFields ==
  {"ts", "pid", "event", "family", "proto", "dst_ip", "dst_port", "result",
   "errno"}

\* C18: the events the parser emits for a trace, written to egress.jsonl by
\* parse_to_jsonl and read back line by line into EventSchema as
\* upload_report does, are as many and in the same order, and every field the
\* parser sets has the value it had.
C18_JsonlRoundTrip ==
  rpc \notin {"off", "trace", "artifact"} =>
    LET emitted == parse_strace_file(trace).events
    IN  /\ rpc # "rejected"
        /\ Len(uploaded) = Len(emitted)
        /\ Len(events) = Len(emitted)
        /\ \A i \in 1..Len(emitted) :
             \A f \in ParserFields : events[i][f] = emitted[i][f]

C18_Witness ==
  /\ rpc = "stored"
  /\ Len(events) = 3
  /\ events[1].dst_ip = <<"e", "v", "i", "l", "\\", "n">>
  /\ events[1].ts = [int |-> 2, frac |-> <<>>]
  /\ events[1].errno = None
  /\ events[2].errno = EINPROGRESS /\ events[2].pid = 7 /\ events[2].dst_port = 53
  /\ events[3].errno = ECONNREFUSED /\ events[3].dst_port = 0

\* ------------------------------------------------ claims: the container
\* run_with_strace has returned to its caller
RunnerReturned == pc = "returned_from_runner"

\* C19: the two launch strategies are interchangeable: what run_with_strace
\* returns depends on the behaviour of the container runtime only, not on
\* the strategy - the exit status of the traced command and no error when
\* every step succeeded, exit code 1 and an error when the start, the wait
\* or a later step failed - and a container is created with the same mounts,
\* tmpfs areas, capabilities, security options, working directory, image
\* and command by either strategy.
C19_StrategiesInterchangeable ==
  /\ RunnerReturned =>
       /\ exit_code = (IF failure = "none" THEN status ELSE 1)
       /\ (error = NoError) <=> (failure = "none")
  /\ config.created =>
       /\ config = SdkConfig(launch.work_dir, launch.out_dir, CommandOf(app, launch))
       /\ config = SubConfig(launch.work_dir, launch.out_dir, CommandOf(app, launch))

\* C20: every container created by either strategy has a read-only root
\* filesystem, exactly two bind mounts - the work directory read-only at
\* /work and the directory of the trace file writable at /output - and all
\* capabilities dropped with SYS_PTRACE the only one added, whatever the
\* directories and arguments of the invocation are.
C20_ContainerIsLockedDown ==
  config.created =>
    /\ config.read_only
    /\ config.mounts = {Mount(launch.work_dir, "/work", "ro"),
                        Mount(launch.out_dir, "/output", "rw")}
    /\ Cardinality(config.mounts) = 2
    /\ config.cap_drop = {"ALL"}
    /\ config.cap_add = {"SYS_PTRACE"}

\* ------------------------------------------- claims: the scratch areas
ScratchAreas == {"/tmp", "/root/.local", "/root/.cache"}

\* size=<n>m for the capacities the runner uses
SizeCaps == {"size=100m", "size=50m"}

\* C21: every scratch writable area given to the container (the tmpfs mounts
\* /tmp, /root/.local and /root/.cache) is in memory, size-capped, mounted
\* no-exec and mounted no-setuid, by either launch strategy.
C21_ScratchAreasRestricted ==
  config.created =>
    /\ {t[1] : t \in config.tmpfs} = ScratchAreas
    /\ \A t \in config.tmpfs :
         /\ Range(t[2]) \cap SizeCaps # {}
         /\ "nosuid" \in Range(t[2])
         /\ "noexec" \in Range(t[2])

\* ------------------------------------------ claims: the trace artifact
\* C22: whenever run_with_strace returns, on every path of either strategy,
\* egress.strace exists on disk (touched if the tracer wrote none), so the
\* parse stage never meets an absent trace file.
C22_TraceFileExistsOnReturn ==
  /\ RunnerReturned => strace.exists
  /\ stage = "Parsing" => strace.exists

\* ------------------------------------------ claims: container removal
\* a container was started for this run
Started == config.created

\* the step that removes the container is taken where the code removes it:
\* behind the wait and the retrieval of the exit code
RemovedInItsPlace ==
  (container # "removed" /\ container' = "removed") =>
    (pc \in {"sdk_remove", "sub_rm"} /\ container = "exited")

\* C23: by either strategy every container that was started is removed
\* before run_with_strace returns, on every path, failures of the wait or
\* of the exit-code retrieval included, and it is removed only after the
\* wait and the exit-code retrieval have completed.
C23_StartedContainerIsRemoved ==
  /\ [](RunnerReturned /\ Started => container = "removed")
  /\ [][RemovedInItsPlace]_vars

\* ------------------------------------------------ claims: the app directory
\* the candidates that are regular files of the app directory
EntryFiles == {n \in {"__main__.py", "main.py", "app.py"} : n \in app.files}

Discovered == entry_point # Pending

\* C24: discover_entry_point returns the first existing regular file among
\* __main__.py, main.py and app.py in that priority order, so __main__.py
\* wins when several exist, and raises AppValidationError exactly when none
\* of the three exists as a file.
C24_FirstCandidateWins ==
  Discovered =>
    /\ "__main__.py" \in EntryFiles => entry_point.name = "__main__.py"
    /\ ("__main__.py" \notin EntryFiles /\ "main.py" \in EntryFiles)
         => entry_point.name = "main.py"
    /\ (EntryFiles = {"app.py"}) => entry_point.name = "app.py"
    /\ entry_point.name = "AppValidationError" <=> EntryFiles = {}

\* main.py is picked although app.py is a file too and __main__.py exists
\* as a directory
C24_Witness ==
  /\ Discovered
  /\ entry_point.name = "main.py"
  /\ "__main__.py" \in app.dirs
  /\ "app.py" \in app.files

\* ------------------------------------------------ claims: run.json counts
\* the events of egress.jsonl as the aggregation engine reads them
JsonlEvents == ReadEvents(jsonl.lines).events

\* C25: count_events_from_jsonl returns (total, unique IPs, unique IP:port
\* pairs): total is the number of well-formed records, (0, 0, 0) for a
\* missing file, unique IPs the number of distinct dst_ip values, and the
\* pair count is the number of distinct (dst_ip, dst_port) pairs of the
\* events for every port in 0..65535, the value the aggregation engine
\* reports as unique_destinations for the same events.
C25_PairCountIsDistinctPairs ==
  /\ count_events_from_jsonl(Absent) = <<0, 0, 0>>
  /\ runjson.exists =>
       /\ runjson.total_events = Len(JsonlEvents)
       /\ runjson.unique_dst_ips
            = Cardinality({JsonlEvents[i].dst_ip : i \in 1..Len(JsonlEvents)})
       /\ runjson.unique_dst_ip_ports
            = Cardinality({<<JsonlEvents[i].dst_ip, JsonlEvents[i].dst_port>> :
                             i \in 1..Len(JsonlEvents)})
       /\ runjson.unique_dst_ip_ports
            = compute_aggregates(JsonlEvents).unique_destinations

\* ------------------------------------------- claims: the output directory
\* this run and the other one are both between their start and their end
BothRunning ==
  /\ pc \notin {"idle", "returned", "crashed"}
  /\ peer.pc \in {"running", "traced"}

\* C26: two pipeline runs at the same time never share an output directory:
\* the directory mounted writable at /output and the egress.strace,
\* egress.jsonl and run.json in it belong to one run only, so in no
\* interleaving does a run read, parse or overwrite the files of the other.
C26_OutputDirOwnedByOneRun ==
  /\ BothRunning => peer.out_dir # launch.out_dir
  /\ peer.wrote = {}

\* ------------------------------------------------- claims: termination
ContainerGone == container \in {"exited", "removed"}

\* C27: by either strategy the engine returns an exit code only after the
\* whole container has exited; and once the launched container has exited,
\* run_with_strace returns and the coordinator goes on to Done: a run whose
\* container has exited does not end anywhere before Done.
C27_ReturnsAfterExitThenDone ==
  /\ (RunnerReturned /\ Started /\ error = NoError) => ContainerGone
  /\ (Started /\ ContainerGone /\ Finished) => stage = "Done"

\* ------------------------------------------- C28: protocol and domain
\* the events of the upload that went to the destination of entry t
EventsTo(t) ==
  {i \in 1..Len(events) :
     events[i].dst_ip = t.dst_ip /\ events[i].dst_port = t.dst_port}

Votes(t, p) == Cardinality({i \in EventsTo(t) : events[i].proto = p})

FirstWith(t, p) ==
  CHOOSE i \in EventsTo(t) :
    /\ events[i].proto = p
    /\ \A j \in EventsTo(t) : events[j].proto = p => i <= j

Carrying(t) ==
  {i \in EventsTo(t) : events[i].resolved_domain \notin {None, <<>>}}

\* C28: for every entry of top_destinations, proto is the protocol most
\* events of that (ip, port) pair have, among protocols with equally many
\* events the one that occurs first in the event sequence, and domain is
\* the resolved_domain of the first event of the pair that carries a
\* non-empty one, null if no event of the pair does.
C28_DominantProtocolAndDomain ==
  Stored =>
    \A n \in 1..Len(report.summary.top_destinations) :
      LET t == report.summary.top_destinations[n]
      IN  /\ \E i \in EventsTo(t) : events[i].proto = t.proto
          /\ \A i \in EventsTo(t) :
               \/ Votes(t, events[i].proto) < Votes(t, t.proto)
               \/ /\ Votes(t, events[i].proto) = Votes(t, t.proto)
                  /\ FirstWith(t, t.proto) <= FirstWith(t, events[i].proto)
          /\ t.domain =
               IF Carrying(t) = {} THEN None
               ELSE events[CHOOSE i \in Carrying(t) :
                             \A j \in Carrying(t) : i <= j].resolved_domain

\* a destination whose first event has another protocol than most of its
\* events and carries no domain while later events carry two different
\* ones
C28_Witness ==
  /\ Stored
  /\ \E n \in 1..Len(report.summary.top_destinations) :
       LET t == report.summary.top_destinations[n]
           first == CHOOSE i \in EventsTo(t) : \A j \in EventsTo(t) : i <= j
       IN  /\ events[first].proto # t.proto
           /\ events[first].resolved_domain \in {None, <<>>}
           /\ t.domain # None
           /\ \E i \in Carrying(t) : events[i].resolved_domain # t.domain

\* ------------------------------------------ C29: validation comes first
\* one of the four checks of validate_app_directory fails
ValidationFails ==
  \/ ~app.exists
  \/ ~app.is_dir
  \/ EntryFiles = {}
  \/ ~app.syntax_ok

\* the output files are as they were before the command
OutputUntouched ==
  /\ strace \in {Absent} \cup {File(c) : c \in StaleContents}
  /\ jsonl = IF strace.exists THEN File(JsonlLeftBy(strace.lines)) ELSE Absent
  /\ runjson = NoMetadata
  /\ ~traced

\* C29: run_app_command launches the sandbox only after
\* validate_app_directory succeeded; when the path does not exist, is not
\* a directory, has no entry point or has an entry point with invalid
\* syntax, the first of these in that order is reported as
\* AppValidationError, run_app_command returns 1, no container is
\* launched and no output file is created.
C29_ValidationBeforeLaunch ==
  (cmd = "run_app" /\ ValidationFails) =>
    /\ pc \in {"idle", "returned"}
    /\ container = "none" /\ ~Started
    /\ stages = <<"Idle">>
    /\ OutputUntouched
    /\ pc = "returned" =>
         /\ ret = 1
         /\ raised = "none"
         /\ stderr = IF ~app.exists THEN "Directory does not exist"
                     ELSE IF ~app.is_dir THEN "Not a directory"
                     ELSE IF EntryFiles = {} THEN "No entry point found"
                     ELSE "Invalid Python syntax"

\* run_app_command returned 1 for an app whose entry point does not parse
C29_Witness ==
  /\ cmd = "run_app" /\ pc = "returned" /\ ret = 1
  /\ app.exists /\ app.is_dir /\ EntryFiles # {} /\ ~app.syntax_ok
  /\ stderr = "Invalid Python syntax"
  /\ container = "none"

\* ------------------------------------------- C30: upload all or nothing
\* the lines of the upload that are not blank
NonBlank == SelectSeq(uploaded, LAMBDA l : l.kind # "blank")

\* the upload is not UTF-8, or a non-blank line is no JSON or no event
BadUpload ==
  \E i \in 1..Len(uploaded) :
    \/ uploaded[i].kind \in {"undecodable", "garbage"}
    \/ uploaded[i].kind = "object" /\ IsQuoted(uploaded[i].pid)

\* the events of the upload, one for each non-blank line, in file order
Sent == [i \in 1..Len(NonBlank) |-> EventSchema(json_loads(NonBlank[i]))]

Ids == {r.id : r \in db}

\* a response that is no 404 names a stored report, one that is 404 does not
Answered(response) ==
  /\ response.status = 200 => response.id \in Ids
  /\ response.status = 404 => response.id \notin Ids
  /\ response.status \in {0, 200, 404}

\* what upload_report left behind, and what the GET endpoints answered
UploadOutcome ==
  /\ rpc = "artifact" => db = {OldRow}
  /\ (rpc # "artifact" /\ BadUpload) =>
       /\ ~Stored
       /\ rpc \in {"rejected", "served"}
       /\ db = {OldRow}
  /\ (rpc # "artifact" /\ ~BadUpload) =>
       /\ Stored
       /\ rpc \in {"stored", "served"}
       /\ db = {OldRow, report}
       /\ report.id # OldRow.id
  /\ rpc = "stored" =>
       LET sent == Sent
           summary == compute_aggregates(sent)
       IN  /\ events = sent
           /\ report.summary = summary
           /\ report.flags = calculate_flags(sent, summary)
           /\ Len(report.top_events) =
                (IF Len(sent) < TOP_EVENTS THEN Len(sent) ELSE TOP_EVENTS)
           /\ \A i \in 1..Len(report.top_events) :
                report.top_events[i] = sent[i]
  /\ Answered(shown) /\ Answered(exported) /\ Answered(listing)
  /\ (listing.status = 200 /\ listing.id = report.id) =>
       /\ listing.total = Len(report.top_events)
       /\ listing.returned <= listing.total

\* a step of a GET endpoint leaves the table and the stored report alone
GetLeavesStore == rpc' = "served" => UNCHANGED <<db, report, events>>

\* C30: an upload that is not UTF-8 or has a non-blank line that is not
\* valid JSON or not a valid EventSchema is answered with status 400 and
\* adds no Report; any other upload adds exactly one Report with an id no
\* stored report has, whose summary and flags are computed from all
\* uploaded events and whose top_events are the first 100 events in
\* upload order; the GET endpoints leave the stored reports as they are
\* and answer 404 for an unknown id.
C30_UploadAllOrNothing == []UploadOutcome /\ [][GetLeavesStore]_vars

\* a file of 101 events and a blank line was stored and its events were
\* listed
C30_Witness ==
  /\ Stored /\ rpc = "served"
  /\ Len(uploaded) > Len(events) /\ Len(events) > TOP_EVENTS
  /\ listing.status = 200 /\ listing.id = report.id
  /\ listing.returned = 1

====
